---------------------------- MODULE Spec2Model ----------------------------
(***************************************************************************)
(* A model of the turn pipeline of the JARVIS assistant, in its two        *)
(* program variants:                                                       *)
(*     src/assistant.py    (variant "assistant")                           *)
(*     src/JARVIS-PT2.py   (variant "pt2")                                 *)
(* Text is a sequence of one-character strings, so that the sentence       *)
(* segmenter, strip() and the router's substring tests are computed as     *)
(* the code computes them.                                                 *)
(***************************************************************************)
EXTENDS Integers, Sequences, FiniteSets, TLC

(***************************************************************************)
(* Bounds of the model.                                                    *)
(***************************************************************************)
\* utterances (typed or spoken) handled in one run of Spec
MaxTurns == 2
\* fragments the generative backend streams in one turn
MaxChunks == 1
\* Stop clicks in one run
MaxStops == 1
\* speech-recognition listeners ever started (assistant.py)
MaxListeners == MaxStops + 1
\* the synthesis and playback calls that fail in a run
MaxTtsFailures == 1
\* fragments of one stream in SegSpec, characters of one fragment, and turns
\* of one run of SegSpec
MaxSegFrags == 3
MaxSegTurns == 1
MaxFragLen == 2
\* generative turns of one run of MemSpec
MaxMemTurns == 11
\* utterances of one run of GateSpec
MaxGateTurns == 4
\* fragments of one stream in QuietSpec
MaxQuietChunks == 2

(***************************************************************************)
(* Program constants.                                                      *)
(***************************************************************************)
\* save_memory keeps the last 20 non-system entries
HistoryLimit == 20

(***************************************************************************)
(* Text: characters, str.strip, str.lower, substring tests.                *)
(***************************************************************************)
\* the characters Python's \s and str.strip() treat as whitespace (those used)
Whitespace == {" ", "\n", "\t"}

\* the sentence-terminal characters of the split pattern (?<=[.!?])\s+
Terminal == {".", "!", "?"}

RECURSIVE LStrip(_)
LStrip(s) ==
    IF s # <<>> /\ Head(s) \in Whitespace THEN LStrip(Tail(s)) ELSE s

RECURSIVE RStrip(_)
RStrip(s) ==
    IF s # <<>> /\ s[Len(s)] \in Whitespace
    THEN RStrip(SubSeq(s, 1, Len(s) - 1))
    ELSE s

\* str.strip()
Strip(s) == RStrip(LStrip(s))

\* the text with every whitespace character deleted
NoSpace(s) == SelectSeq(s, LAMBDA c : c \notin Whitespace)

RECURSIVE Flatten(_)
Flatten(ss) == IF ss = <<>> THEN <<>> ELSE Head(ss) \o Flatten(Tail(ss))

\* the index of the first non-whitespace character of s at or after i
RECURSIVE SkipSpace(_, _)
SkipSpace(s, i) ==
    IF i <= Len(s) /\ s[i] \in Whitespace THEN SkipSpace(s, i + 1) ELSE i

\* re.split(r'(?<=[.!?])\s+', s) from index i on, cur being the piece so far
RECURSIVE SplitFrom(_, _, _)
SplitFrom(s, i, cur) ==
    IF i > Len(s) THEN <<cur>>
    ELSE IF i > 1 /\ s[i - 1] \in Terminal /\ s[i] \in Whitespace
         THEN <<cur>> \o SplitFrom(s, SkipSpace(s, i), <<>>)
         ELSE SplitFrom(s, i + 1, Append(cur, s[i]))

\* re.split(r'(?<=[.!?])\s+', buffer): at least one piece, the last one the
\* (possibly empty) remainder
SplitSentences(buffer) == SplitFrom(buffer, 1, <<>>)

AllButLast(ss) == SubSeq(ss, 1, Len(ss) - 1)

Last(ss) == ss[Len(ss)]


(***************************************************************************)
(* State.                                                                  *)
(***************************************************************************)
VARIABLES
    variant,                \* which program runs: "assistant" or "pt2"
    stop_flag,              \* threading.Event stop_flag
    pending_close_window,   \* the window awaiting a yes/no, or "none"
    pending_system_action,  \* "shutdown", "restart", "log off", or "none"
    current_file,           \* the file created last, or <<>>
    memory,                 \* the in-process conversation memory
    memory_file,            \* what save_memory wrote last to memory.json
    tts_queue,              \* queue.Queue tts_queue: unit numbers, oldest first
    sd_active,              \* the units whose playback is active in sounddevice
    worker,                 \* the TTS worker thread: [pc, unit]
    turn,                   \* one record per utterance handled so far
    ui_running,             \* assistant.py: inputs and Stop enabled, Start disabled
    timers,                 \* pt2: clear_flag threads asleep
    nStops,                 \* Stop clicks so far
    sr_handle,              \* assistant.py: sr_stop_listening (0: None)
    sr_listeners,           \* the listeners that are running
    sr_started,             \* listeners started so far
    typing,                 \* the typing / "Thinking" indicator
    units,                  \* history: every text put on tts_queue, in order
    synthLog,               \* history: the units synthesized, in order
    playLog,                \* history: the units whose playback started
    execLog,                \* history: the gated actions executed
    ttsFailed,              \* history: the synthesis and playback calls that failed
    interrupted,            \* history: Stop or a barge-in happened
    atStop                  \* history: the queue and the playback at the last Stop

shared == <<variant, stop_flag, pending_close_window, pending_system_action,
            current_file, memory, memory_file, typing>>
speech == <<tts_queue, sd_active, worker>>
threads == <<turn, ui_running, timers, nStops, sr_handle, sr_listeners,
             sr_started>>
logs == <<units, synthLog, playLog, execLog, ttsFailed, interrupted, atStop>>
vars == <<shared, speech, threads, logs>>

\* the system entry load_memory() starts a fresh memory with
SystemPrompt == <<"s", "y", "s">>

SystemEntry == [role |-> "system", content |-> SystemPrompt, turn |-> 0]

(***************************************************************************)
(* The TTS queue and its worker.  The worker's places are where it blocks: *)
(* "get" (tts_queue.get()), "synth" (communicate.save), "poll" (the        *)
(* playback poll loop).                                                    *)
(***************************************************************************)
\* queue_tts: the text that is put on the queue for text, if any is
\* (if text and text.strip(): tts_queue.put(text.strip()))
QueueTts(text) == IF Strip(text) # <<>> THEN <<Strip(text)>> ELSE <<>>

\* the texts put on the queue by queue_tts called for each of texts, in order
RECURSIVE QueueTtsAll(_)
QueueTtsAll(texts) ==
    IF texts = <<>> THEN <<>>
    ELSE QueueTts(Head(texts)) \o QueueTtsAll(Tail(texts))

\* the registry of units after turn t put texts on the queue
UnitsWith(us, put, t) ==
    us \o [i \in 1..Len(put) |-> [text |-> put[i], turn |-> t]]

\* a queue on which the texts are put at the front
QueueWithFront(q, us, put) == [i \in 1..Len(put) |-> Len(us) + i] \o q

\* the queue after the texts put are put on it, us being the registry before
QueueWith(q, us, put) == q \o [i \in 1..Len(put) |-> Len(us) + i]

\* tts_worker and the head of speak_text: whether the entry taken is
\* spoken, the stop flag being stop (if stop_flag.is_set(): ... continue)
WorkerTakes(stop) == ~stop

\* text = tts_queue.get(); the entry is dropped on the stop flag, else
\* speak_text starts its synthesis
WorkerGet ==
    /\ worker.pc = "get"
    /\ tts_queue # <<>>
    /\ Head(tts_queue) # 0
    /\ tts_queue' = Tail(tts_queue)
    /\ worker' = IF WorkerTakes(stop_flag)
                 THEN [pc |-> "synth", unit |-> Head(tts_queue)]
                 ELSE [pc |-> "get", unit |-> 0]
    /\ UNCHANGED <<shared, sd_active, threads, logs>>

\* speak_text after the synthesis: whether the unit is played, the stop
\* flag being stop (if stop_flag.is_set(): os.remove(tmp_path); return)
PlayAfterSynth(stop) == ~stop

\* await communicate.save(tmp_path) returns: the audio of the unit is
\* generated; unless the stop flag is set, sf.read(...) and
\* sd.play(data, blocking=False): playback of the unit starts.  That
\* sounddevice stops a stream it still plays is not relied on.
SpeakSynth ==
    /\ worker.pc = "synth"
    /\ synthLog' = Append(synthLog, worker.unit)
    /\ IF PlayAfterSynth(stop_flag)
       THEN /\ worker' = [worker EXCEPT !.pc = "poll"]
            /\ sd_active' = sd_active \cup {worker.unit}
            /\ playLog' = Append(playLog, worker.unit)
       ELSE /\ worker' = [pc |-> "get", unit |-> 0]
            /\ UNCHANGED <<sd_active, playLog>>
    /\ UNCHANGED <<shared, tts_queue, threads, units, execLog, ttsFailed,
                   interrupted, atStop>>

\* a worker thread that ends at the first failure of an entry
SpeakFailsAndEnds ==
    /\ worker.pc = "synth"
    /\ ttsFailed < MaxTtsFailures
    /\ ttsFailed' = ttsFailed + 1
    /\ worker' = [pc |-> "ended", unit |-> 0]
    /\ UNCHANGED <<shared, tts_queue, sd_active, threads, units, synthLog,
                   playLog, execLog, interrupted, atStop>>

\* communicate.save raises ("TTS generation error" in assistant.py, "TTS
\* error" in pt2), or sf.read or sd.play raises ("Playback error"): the
\* unit is not played, the worker goes on
SpeakFails ==
    /\ worker.pc = "synth"
    /\ ttsFailed < MaxTtsFailures
    /\ ttsFailed' = ttsFailed + 1
    /\ worker' = [pc |-> "get", unit |-> 0]
    /\ UNCHANGED <<shared, tts_queue, sd_active, threads, units, synthLog,
                   playLog, execLog, interrupted, atStop>>

\* a poll loop that is left while the stream is still active
PollLeavesAtOnce(stop, active) == TRUE

\* the poll loop of speak_text: whether it is left, the stop flag being stop
\* and the stream's active status being active
PollLeaves(stop, active) == stop \/ ~active

\* whether the poll loop calls sd.stop() as it is left: assistant.py tests
\* the stop flag first, pt2 only while the stream is active
PollStops(v, stop, active) ==
    IF v = "assistant" THEN stop ELSE stop /\ active

\* one round of the poll loop: on the stop flag sd.stop() and leave, leave
\* when the stream is no longer active, else sleep 0.05 s and poll again
SpeakPoll ==
    /\ worker.pc = "poll"
    /\ PollLeaves(stop_flag, worker.unit \in sd_active)
    /\ sd_active' = IF PollStops(variant, stop_flag, worker.unit \in sd_active)
                    THEN {}
                    ELSE sd_active
    /\ worker' = [pc |-> "get", unit |-> 0]
    /\ UNCHANGED <<shared, tts_queue, threads, logs>>

\* the audio device plays a unit to its end
PlaybackEnds ==
    /\ \E u \in sd_active : sd_active' = sd_active \ {u}
    /\ UNCHANGED <<shared, tts_queue, worker, threads, logs>>

Worker ==
    \/ WorkerGet
    \/ SpeakSynth
    \/ SpeakFails
    \/ SpeakPoll
    \/ PlaybackEnds

(***************************************************************************)
(* The words and phrases the router matches, as texts: W.shutdown is the   *)
(* text "shutdown", W.log_off the text "log off" (a trailing or leading    *)
(* underscore is a blank of the phrase).                                   *)
(***************************************************************************)
W ==
    [ time |-> <<"t", "i", "m", "e">>,
      date |-> <<"d", "a", "t", "e">>,
      shutdown |-> <<"s", "h", "u", "t", "d", "o", "w", "n">>,
      restart |-> <<"r", "e", "s", "t", "a", "r", "t">>,
      log_off |-> <<"l", "o", "g", " ", "o", "f", "f">>,
      lock_my_pc |-> <<"l", "o", "c", "k", " ", "m", "y", " ", "p", "c">>,
      lock_laptop |-> <<"l", "o", "c", "k", " ", "l", "a", "p", "t", "o", "p">>,
      unlock_my_pc |-> <<"u", "n", "l", "o", "c", "k", " ", "m", "y", " ", "p", "c">>,
      unlock_laptop |-> <<"u", "n", "l", "o", "c", "k", " ", "l", "a", "p", "t", "o", "p">>,
      unlock_my_laptop |-> <<"u", "n", "l", "o", "c", "k", " ", "m", "y", " ", "l", "a", "p", "t", "o", "p">>,
      login_my_pc |-> <<"l", "o", "g", "i", "n", " ", "m", "y", " ", "p", "c">>,
      login_my_laptop |-> <<"l", "o", "g", "i", "n", " ", "m", "y", " ", "l", "a", "p", "t", "o", "p">>,
      log_in_my_pc |-> <<"l", "o", "g", " ", "i", "n", " ", "m", "y", " ", "p", "c">>,
      log_in_my_laptop |-> <<"l", "o", "g", " ", "i", "n", " ", "m", "y", " ", "l", "a", "p", "t", "o", "p">>,
      light |-> <<"l", "i", "g", "h", "t">>,
      on |-> <<"o", "n">>,
      off |-> <<"o", "f", "f">>,
      create_a_file |-> <<"c", "r", "e", "a", "t", "e", " ", "a", " ", "f", "i", "l", "e">>,
      write |-> <<"w", "r", "i", "t", "e">>,
      add |-> <<"a", "d", "d">>,
      write_ |-> <<"w", "r", "i", "t", "e", " ">>,
      add_ |-> <<"a", "d", "d", " ">>,
      close |-> <<"c", "l", "o", "s", "e">>,
      quit |-> <<"q", "u", "i", "t">>,
      exit |-> <<"e", "x", "i", "t">>,
      minimise |-> <<"m", "i", "n", "i", "m", "i", "s", "e">>,
      minimize |-> <<"m", "i", "n", "i", "m", "i", "z", "e">>,
      maximise |-> <<"m", "a", "x", "i", "m", "i", "s", "e">>,
      maximize |-> <<"m", "a", "x", "i", "m", "i", "z", "e">>,
      restore |-> <<"r", "e", "s", "t", "o", "r", "e">>,
      unminimize |-> <<"u", "n", "m", "i", "n", "i", "m", "i", "z", "e">>,
      unminimise |-> <<"u", "n", "m", "i", "n", "i", "m", "i", "s", "e">>,
      switch_to_ |-> <<"s", "w", "i", "t", "c", "h", " ", "t", "o", " ">>,
      new_tab |-> <<"n", "e", "w", " ", "t", "a", "b">>,
      open_new_tab |-> <<"o", "p", "e", "n", " ", "n", "e", "w", " ", "t", "a", "b">>,
      open_tab |-> <<"o", "p", "e", "n", " ", "t", "a", "b">>,
      close_tab |-> <<"c", "l", "o", "s", "e", " ", "t", "a", "b">>,
      close_current_tab |-> <<"c", "l", "o", "s", "e", " ", "c", "u", "r", "r", "e", "n", "t", " ", "t", "a", "b">>,
      next_tab |-> <<"n", "e", "x", "t", " ", "t", "a", "b">>,
      switch_tab |-> <<"s", "w", "i", "t", "c", "h", " ", "t", "a", "b">>,
      switch_to_next_tab |-> <<"s", "w", "i", "t", "c", "h", " ", "t", "o", " ", "n", "e", "x", "t", " ", "t", "a", "b">>,
      previous_tab |-> <<"p", "r", "e", "v", "i", "o", "u", "s", " ", "t", "a", "b">>,
      prev_tab |-> <<"p", "r", "e", "v", " ", "t", "a", "b">>,
      switch_to_previous_tab |-> <<"s", "w", "i", "t", "c", "h", " ", "t", "o", " ", "p", "r", "e", "v", "i", "o", "u", "s", " ", "t", "a", "b">>,
      volume |-> <<"v", "o", "l", "u", "m", "e">>,
      up |-> <<"u", "p">>,
      increase |-> <<"i", "n", "c", "r", "e", "a", "s", "e">>,
      down |-> <<"d", "o", "w", "n">>,
      decrease |-> <<"d", "e", "c", "r", "e", "a", "s", "e">>,
      mute |-> <<"m", "u", "t", "e">>,
      unmute |-> <<"u", "n", "m", "u", "t", "e">>,
      brightness |-> <<"b", "r", "i", "g", "h", "t", "n", "e", "s", "s">>,
      play_ |-> <<"p", "l", "a", "y", " ">>,
      _on_ |-> <<" ", "o", "n", " ">>,
      open_ |-> <<"o", "p", "e", "n", " ">>,
      mouse |-> <<"m", "o", "u", "s", "e">>,
      click |-> <<"c", "l", "i", "c", "k">>,
      double |-> <<"d", "o", "u", "b", "l", "e">>,
      move |-> <<"m", "o", "v", "e">>,
      type_ |-> <<"t", "y", "p", "e", " ">>,
      press_ |-> <<"p", "r", "e", "s", "s", " ">>,
      scroll |-> <<"s", "c", "r", "o", "l", "l">>,
      screenshot |-> <<"s", "c", "r", "e", "e", "n", "s", "h", "o", "t">>,
      whatsapp |-> <<"w", "h", "a", "t", "s", "a", "p", "p">>,
      system_info |-> <<"s", "y", "s", "t", "e", "m", " ", "i", "n", "f", "o">>,
      open_notepad |-> <<"o", "p", "e", "n", " ", "n", "o", "t", "e", "p", "a", "d">>,
      open_calculator |-> <<"o", "p", "e", "n", " ", "c", "a", "l", "c", "u", "l", "a", "t", "o", "r">>,
      open_cmd |-> <<"o", "p", "e", "n", " ", "c", "m", "d">>,
      open_chrome |-> <<"o", "p", "e", "n", " ", "c", "h", "r", "o", "m", "e">>,
      open_vs_code |-> <<"o", "p", "e", "n", " ", "v", "s", " ", "c", "o", "d", "e">>,
      open_youtube |-> <<"o", "p", "e", "n", " ", "y", "o", "u", "t", "u", "b", "e">>,
      play_rickrolled |-> <<"p", "l", "a", "y", " ", "r", "i", "c", "k", "r", "o", "l", "l", "e", "d">>,
      create_file |-> <<"c", "r", "e", "a", "t", "e", " ", "f", "i", "l", "e">>,
      delete_file |-> <<"d", "e", "l", "e", "t", "e", " ", "f", "i", "l", "e">>,
      read_file |-> <<"r", "e", "a", "d", " ", "f", "i", "l", "e">>,
      update_file |-> <<"u", "p", "d", "a", "t", "e", " ", "f", "i", "l", "e">>,
      youtube |-> <<"y", "o", "u", "t", "u", "b", "e">>,
      youtube_music |-> <<"y", "o", "u", "t", "u", "b", "e", " ", "m", "u", "s", "i", "c">>,
      spotify |-> <<"s", "p", "o", "t", "i", "f", "y">>,
      google |-> <<"g", "o", "o", "g", "l", "e">>,
      github |-> <<"g", "i", "t", "h", "u", "b">>,
      google_docs |-> <<"g", "o", "o", "g", "l", "e", " ", "d", "o", "c", "s">>,
      google_drive |-> <<"g", "o", "o", "g", "l", "e", " ", "d", "r", "i", "v", "e">>,
      yes |-> <<"y", "e", "s">>,
      yes_jarvis |-> <<"y", "e", "s", " ", "j", "a", "r", "v", "i", "s">>,
      yes_please |-> <<"y", "e", "s", " ", "p", "l", "e", "a", "s", "e">>,
      y |-> <<"y">>,
      yeah |-> <<"y", "e", "a", "h">>,
      yep |-> <<"y", "e", "p">>,
      sure |-> <<"s", "u", "r", "e">>,
      confirm |-> <<"c", "o", "n", "f", "i", "r", "m">>,
      ok |-> <<"o", "k">>,
      no |-> <<"n", "o">>,
      n |-> <<"n">>,
      nah |-> <<"n", "a", "h">>,
      cancel |-> <<"c", "a", "n", "c", "e", "l">>,
      stop |-> <<"s", "t", "o", "p">>,
      python |-> <<"p", "y", "t", "h", "o", "n">>,
      javascript |-> <<"j", "a", "v", "a", "s", "c", "r", "i", "p", "t">>,
      js |-> <<"j", "s">>,
      html |-> <<"h", "t", "m", "l">>,
      css |-> <<"c", "s", "s">>,
      _called |-> <<" ", "c", "a", "l", "l", "e", "d">>,
      _named |-> <<" ", "n", "a", "m", "e", "d">>,
      ext_py |-> <<".", "p", "y">>,
      ext_js |-> <<".", "j", "s">>,
      ext_html |-> <<".", "h", "t", "m", "l">>,
      ext_css |-> <<".", "c", "s", "s">>,
      ext_txt |-> <<".", "t", "x", "t">> ]

(***************************************************************************)
(* Text tests of the router.                                               *)
(***************************************************************************)
\* pat in s
Contains(s, pat) ==
    \E i \in 1..(Len(s) - Len(pat) + 1) : SubSeq(s, i, i + Len(pat) - 1) = pat

\* s.startswith(pat)
StartsWith(s, pat) == Len(s) >= Len(pat) /\ SubSeq(s, 1, Len(pat)) = pat

\* str.lower() on the capitals the utterances use
LowerChar(c) ==
    CASE c = "O" -> "o"
      [] c = "K" -> "k"
      [] c = "Y" -> "y"
      [] c = "N" -> "n"
      [] OTHER -> c

Lower(s) == [i \in 1..Len(s) |-> LowerChar(s[i])]

Digit == {"0", "1", "2", "3", "4", "5", "6", "7", "8", "9"}

\* re.search(r"(\d{1,3})\s*%", s)
HasPercent(s) ==
    \E i \in 1..Len(s) :
        /\ s[i] \in Digit
        /\ SkipSpace(s, i + 1) <= Len(s)
        /\ s[SkipSpace(s, i + 1)] = "%"

PlaySites ==
    {W.youtube, W.youtube_music, W.spotify, W.google, W.github, W.google_docs,
     W.google_drive}

\* re.search(r"play (.+) on (youtube|...|google drive)", s)
PlayOnSite(s) ==
    \E i \in 1..Len(s) : \E j \in (i + 6)..(Len(s) - 3) :
        /\ SubSeq(s, i, i + 4) = W.play_
        /\ SubSeq(s, j, j + 3) = W._on_
        /\ \E site \in PlaySites :
               /\ j + 3 + Len(site) <= Len(s)
               /\ SubSeq(s, j + 4, j + 3 + Len(site)) = site

(***************************************************************************)
(* handle_local_command: the confirmation word sets.                       *)
(***************************************************************************)
\* the replies that confirm a pending window close
CloseYes(v) ==
    IF v = "assistant"
    THEN {W.yes_jarvis, W.y, W.yeah, W.yep, W.sure, W.confirm, W.ok}
    ELSE {W.yes, W.y, W.yeah, W.yep, W.sure, W.confirm, W.yes_please, W.ok}

\* the replies that cancel a pending window close
CloseNo(v) == {W.no, W.n, W.nah, W.cancel, W.stop}

\* the replies that confirm a pending system action
SysYes(v) ==
    IF v = "assistant"
    THEN {W.yes_jarvis, W.y, W.yeah, W.sure, W.ok, W.confirm}
    ELSE {W.yes, W.y, W.yeah, W.sure, W.ok, W.confirm}

\* the replies that cancel a pending system action
SysNo(v) == {W.no, W.n, W.nah, W.cancel}

SystemActions == {"shutdown", "restart", "log off"}

(***************************************************************************)
(* handle_local_command: the rules tried when no confirmation is pending,  *)
(* in the order of the code.  A rule is [kind, hit]; the first rule that   *)
(* hits answers the utterance.  cmd is command_lower, cf is current_file.  *)
(***************************************************************************)
R(kind, hit) == [kind |-> kind, hit |-> hit]

RuleTimeDate(cmd) ==
    << R("time", Contains(cmd, W.time)),
       R("date", Contains(cmd, W.date)) >>

\* a router without the confirmation gate of the system actions
RuleGateSystemOff(cmd) == <<>>

\* the rules that create a Pending Confirmation for a system action
RuleGateSystem(cmd) ==
    << R("gate shutdown", Contains(cmd, W.shutdown)),
       R("gate restart", Contains(cmd, W.restart)),
       R("gate log off", Contains(cmd, W.log_off)) >>

RuleLockUnlock(cmd) ==
    << R("lock pc", Contains(cmd, W.lock_my_pc) \/ Contains(cmd, W.lock_laptop)),
       R("unlock pc",
         \/ Contains(cmd, W.unlock_my_pc)
         \/ Contains(cmd, W.unlock_laptop)
         \/ Contains(cmd, W.unlock_my_laptop)
         \/ Contains(cmd, W.login_my_pc)
         \/ Contains(cmd, W.login_my_laptop)
         \/ Contains(cmd, W.log_in_my_pc)
         \/ Contains(cmd, W.log_in_my_laptop)) >>

RuleLight(cmd) ==
    << R("light on", Contains(cmd, W.light) /\ Contains(cmd, W.on)),
       R("light off", Contains(cmd, W.light) /\ Contains(cmd, W.off)) >>

RuleCreateFile(cmd) ==
    << R("create file", Contains(cmd, W.create_a_file)) >>

RuleWriteAssistant(cmd, cf) ==
    << R("ai write",
         (StartsWith(cmd, W.write_) \/ StartsWith(cmd, W.add_)) /\ cf # <<>>),
       R("no file",
         (StartsWith(cmd, W.write_) \/ StartsWith(cmd, W.add_)) /\ cf = <<>>) >>

RuleWritePt2(cmd, cf) ==
    << R("no file",
         (Contains(cmd, W.write) \/ Contains(cmd, W.add)) /\ cf = <<>>),
       R("ai write",
         (Contains(cmd, W.write) \/ Contains(cmd, W.add)) /\ cf # <<>>) >>

\* the rule that creates a Pending Confirmation for a window close
RuleGateClose(cmd) ==
    << R("gate close",
         \/ StartsWith(cmd, W.close)
         \/ StartsWith(cmd, W.quit)
         \/ StartsWith(cmd, W.exit)) >>

RuleWindowsAssistant(cmd) ==
    << R("minimize", StartsWith(cmd, W.minimise)),
       R("maximize", StartsWith(cmd, W.maximize) \/ StartsWith(cmd, W.maximise)),
       R("restore",
         \/ StartsWith(cmd, W.restore)
         \/ StartsWith(cmd, W.unminimize)
         \/ StartsWith(cmd, W.unminimise)),
       R("switch to", StartsWith(cmd, W.switch_to_)) >>

RuleWindowsPt2(cmd) ==
    << R("minimize", Contains(cmd, W.minimize)),
       R("maximize", Contains(cmd, W.maximize)),
       R("restore", Contains(cmd, W.restore)),
       R("switch to", StartsWith(cmd, W.switch_to_)) >>

RuleTabs(cmd) ==
    << R("new tab", cmd \in {W.new_tab, W.open_new_tab, W.open_tab}),
       R("close tab", cmd \in {W.close_tab, W.close_current_tab}),
       R("next tab", cmd \in {W.next_tab, W.switch_tab, W.switch_to_next_tab}),
       R("previous tab",
         cmd \in {W.previous_tab, W.prev_tab, W.switch_to_previous_tab}) >>

RuleVolume(cmd) ==
    << R("volume up",
         Contains(cmd, W.volume)
             /\ (Contains(cmd, W.up) \/ Contains(cmd, W.increase))),
       R("volume down",
         Contains(cmd, W.volume)
             /\ (Contains(cmd, W.down) \/ Contains(cmd, W.decrease))),
       R("volume mute",
         Contains(cmd, W.volume)
             /\ (Contains(cmd, W.mute) \/ Contains(cmd, W.off))),
       R("volume unmute",
         Contains(cmd, W.volume)
             /\ (Contains(cmd, W.unmute) \/ Contains(cmd, W.on))) >>

RuleBrightness(cmd) ==
    << R("brightness set", Contains(cmd, W.brightness) /\ HasPercent(cmd)),
       R("brightness up",
         Contains(cmd, W.brightness)
             /\ (Contains(cmd, W.up) \/ Contains(cmd, W.increase))),
       R("brightness down",
         Contains(cmd, W.brightness)
             /\ (Contains(cmd, W.down) \/ Contains(cmd, W.decrease))) >>

RulePlay(cmd) == << R("play on site", PlayOnSite(cmd)) >>

\* an open rule that answers for the mapped sites only, without the
\* https://<target>.com fallback
RuleOpenMapped(cmd) ==
    << R("open site", StartsWith(cmd, W.open_) /\ Contains(cmd, W.youtube)) >>

RuleOpen(cmd) == << R("open site", StartsWith(cmd, W.open_)) >>

RuleInput(cmd) ==
    << R("mouse",
         Contains(cmd, W.mouse)
             /\ (\/ Contains(cmd, W.click)
                 \/ Contains(cmd, W.double)
                 \/ Contains(cmd, W.move))),
       R("type", StartsWith(cmd, W.type_)),
       R("press", StartsWith(cmd, W.press_)),
       R("scroll",
         Contains(cmd, W.scroll)
             /\ (Contains(cmd, W.up) \/ Contains(cmd, W.down))),
       R("screenshot", Contains(cmd, W.screenshot)) >>

RuleWhatsappInfo(cmd) ==
    << R("whatsapp", Contains(cmd, W.whatsapp)),
       R("system info", Contains(cmd, W.system_info)) >>

\* for key in local_commands: if key in command_lower, in the dict's order
RuleTable(cmd) ==
    << R("table open notepad", Contains(cmd, W.open_notepad)),
       R("table open calculator", Contains(cmd, W.open_calculator)),
       R("table open cmd", Contains(cmd, W.open_cmd)),
       R("table open chrome", Contains(cmd, W.open_chrome)),
       R("table open vs code", Contains(cmd, W.open_vs_code)),
       R("table open youtube", Contains(cmd, W.open_youtube)),
       R("table play rickrolled", Contains(cmd, W.play_rickrolled)),
       R("table shutdown", Contains(cmd, W.shutdown)),
       R("table restart", Contains(cmd, W.restart)),
       R("table log off", Contains(cmd, W.log_off)),
       R("table create file", Contains(cmd, W.create_file)),
       R("table delete file", Contains(cmd, W.delete_file)),
       R("table read file", Contains(cmd, W.read_file)),
       R("table update file", Contains(cmd, W.update_file)),
       R("table system info", Contains(cmd, W.system_info)) >>

\* assistant.py, from "# time / date" to "return None"
RulesAssistant(cmd, cf) ==
    RuleTimeDate(cmd) \o RuleGateSystem(cmd) \o RuleLockUnlock(cmd)
        \o RuleLight(cmd) \o RuleCreateFile(cmd) \o RuleWriteAssistant(cmd, cf)
        \o RuleGateClose(cmd) \o RuleWindowsAssistant(cmd) \o RuleTabs(cmd)
        \o RuleVolume(cmd) \o RuleBrightness(cmd) \o RulePlay(cmd)
        \o RuleOpen(cmd) \o RuleInput(cmd) \o RuleWhatsappInfo(cmd)
        \o RuleTable(cmd)

\* JARVIS-PT2.py, from "# ----- Date & Time -----" to "return None"
RulesPt2(cmd, cf) ==
    RuleTimeDate(cmd) \o RuleGateSystem(cmd) \o RuleCreateFile(cmd)
        \o RuleWritePt2(cmd, cf) \o RuleGateClose(cmd) \o RuleWindowsPt2(cmd)
        \o RuleTabs(cmd) \o RuleVolume(cmd) \o RuleBrightness(cmd)
        \o RuleOpen(cmd) \o RuleInput(cmd) \o RuleLight(cmd)
        \o RuleWhatsappInfo(cmd) \o RulePlay(cmd) \o RuleOpen(cmd)
        \o RuleTable(cmd)

Rules(v, cmd, cf) ==
    IF v = "assistant" THEN RulesAssistant(cmd, cf) ELSE RulesPt2(cmd, cf)

\* the number of the first rule that hits, 0 when none does
FirstHit(rules) ==
    IF \E i \in 1..Len(rules) : rules[i].hit
    THEN CHOOSE i \in 1..Len(rules) :
             rules[i].hit /\ \A j \in 1..(i - 1) : ~rules[j].hit
    ELSE 0

\* what handle_local_command does with cmd when no confirmation is pending:
\* the kind of the first rule that hits, "generate" when it returns None
Route(v, cmd, cf) ==
    IF FirstHit(Rules(v, cmd, cf)) = 0
    THEN "generate"
    ELSE Rules(v, cmd, cf)[FirstHit(Rules(v, cmd, cf))].kind

(***************************************************************************)
(* The file name of "create a file ...".                                   *)
(***************************************************************************)
\* the first index at which pat occurs in s (pat occurs in s)
FirstAt(s, pat) ==
    CHOOSE i \in 1..(Len(s) - Len(pat) + 1) :
        /\ SubSeq(s, i, i + Len(pat) - 1) = pat
        /\ \A j \in 1..(i - 1) : SubSeq(s, j, j + Len(pat) - 1) # pat

\* s from index i on
From(s, i) == SubSeq(s, i, Len(s))

\* s up to its first line break: what (.*) matches
RECURSIVE Line(_)
Line(s) ==
    IF s = <<>> \/ Head(s) = "\n" THEN <<>> ELSE <<Head(s)>> \o Line(Tail(s))

\* group 1 of re.search(r"create a file(?: called| named)?\s*(.*)", cmd)
CreateFileGroup(cmd) ==
    LET rest == From(cmd, FirstAt(cmd, W.create_a_file) + Len(W.create_a_file))
        named == IF StartsWith(rest, W._called) THEN From(rest, Len(W._called) + 1)
                 ELSE IF StartsWith(rest, W._named)
                      THEN From(rest, Len(W._named) + 1)
                      ELSE rest
    IN  Line(From(named, SkipSpace(named, 1)))

\* str.replace(' ', '_')
Underscored(s) == [i \in 1..Len(s) |-> IF s[i] = " " THEN "_" ELSE s[i]]

\* os.path.splitext(name)[1] is not empty
HasExtension(name) ==
    \E i \in 2..Len(name) :
        /\ name[i] = "."
        /\ \E k \in 1..(i - 1) : name[k] # "."

\* the name of the file "create a file" creates
FileNameOf(cmd) ==
    LET name == Underscored(Strip(CreateFileGroup(cmd)))
    IN  IF HasExtension(name) THEN name
        ELSE IF Contains(name, W.python) THEN name \o W.ext_py
        ELSE IF Contains(name, W.javascript) \/ Contains(name, W.js)
             THEN name \o W.ext_js
        ELSE IF Contains(name, W.html) THEN name \o W.ext_html
        ELSE IF Contains(name, W.css) THEN name \o W.ext_css
        ELSE name \o W.ext_txt

(***************************************************************************)
(* Turns.  A turn is the handling of one utterance: a call of              *)
(* get_response_from_input (by the Tk main thread for a typed utterance,   *)
(* by a thread of the speech callback for a spoken one), then the stream   *)
(* thread of a generative turn.  A turn's places are where it blocks.      *)
(***************************************************************************)
\* the windows of the desktop
Windows == {"editor"}

\* the fragments the backend streams in Spec
StreamFragments == { <<"a", ".", " ">> }

\* the utterances of Spec's user
Utterances ==
    { <<"h", "i">>,
      W.shutdown,
      <<"O", "k", " ">>,
      W.close }

NewTurn(src, input, pc, listener) ==
    [src |-> src, input |-> input, pc |-> pc, listener |-> listener,
     reply |-> <<>>, buffer |-> <<>>, nchunks |-> 0, answer |-> <<>>,
     stopped |-> FALSE, superseded |-> FALSE, error |-> FALSE,
     raised |-> FALSE]

\* the place of a stream thread whose stream is still running
StreamingPcs == {"s_fetch"}

\* the places of a generative turn that is in progress
GenerativePcs == StreamingPcs \cup {"s_mem", "s_mem_asst"}

\* history: the generative turns in progress are superseded by a new dispatch
Supersede(ts) ==
    [i \in DOMAIN ts |->
        IF ts[i].pc \in GenerativePcs
        THEN [ts[i] EXCEPT !.superseded = TRUE]
        ELSE ts[i]]

\* history: Stop is requested while these turns' streams are running
MarkStopped(ts) ==
    [i \in DOMAIN ts |->
        IF ts[i].pc \in StreamingPcs
        THEN [ts[i] EXCEPT !.stopped = TRUE]
        ELSE ts[i]]

\* an earlier turn's output is still being generated or spoken
OutputPending ==
    \/ \E i \in DOMAIN turn : turn[i].pc # "done"
    \/ tts_queue # <<>>
    \/ worker.pc # "get"
    \/ sd_active # {}

\* the Tk main thread is inside get_response
GuiBusy ==
    \E i \in DOMAIN turn :
        turn[i].src = "typed" /\ turn[i].pc \in {"grfi", "rules"}

\* command.strip().lower() of handle_local_command
CommandLower(t) == Lower(Strip(turn[t].input))

\* get_response: a typed utterance (entry.get().strip(), not empty) is
\* passed to get_response_from_input
TypedInput(inputs, maxTurns) ==
    /\ ~GuiBusy
    /\ variant = "assistant" => ui_running
    /\ Len(turn) < maxTurns
    /\ \E raw \in inputs :
        /\ Strip(raw) # <<>>
        /\ turn' = Append(Supersede(turn), NewTurn("typed", Strip(raw), "grfi", 0))
    /\ interrupted' = (interrupted \/ OutputPending)
    /\ UNCHANGED <<shared, speech, ui_running, timers, nStops, sr_handle,
                   sr_listeners, sr_started, units, synthLog, playLog, execLog,
                   ttsFailed, atStop>>

\* a get_response_from_input that starts the generation thread although
\* the stop flag is set
GrfiStoppedGenerates(t) ==
    /\ turn[t].pc = "grfi"
    /\ stop_flag
    /\ turn' = [turn EXCEPT ![t].pc = "s_fetch"]
    /\ typing' = TRUE
    /\ UNCHANGED <<variant, stop_flag, pending_close_window,
                   pending_system_action, current_file, memory, memory_file,
                   speech, ui_running, timers, nStops, sr_handle,
                   sr_listeners, sr_started, logs>>

\* get_response_from_input: if stop_flag.is_set(): return
GrfiStopped(t) ==
    /\ turn[t].pc = "grfi"
    /\ stop_flag
    /\ turn' = [turn EXCEPT ![t].pc = "done"]
    /\ UNCHANGED <<shared, speech, ui_running, timers, nStops, sr_handle,
                   sr_listeners, sr_started, logs>>

\* a local reply that also records the utterance in the memory
MemoryWithUtterance(m, t) ==
    Append(m, [role |-> "user", content |-> turn[t].input, turn |-> t])

\* the memory after get_response_from_input has returned a local reply:
\* the function returns before anything touches it
MemoryAfterLocal(m, t) == m

\* get_response_from_input with a local reply: both texts are shown, the
\* texts said are queued for speech, the function returns
LocalReply(t, said) ==
    /\ memory' = MemoryAfterLocal(memory, t)
    /\ units' = UnitsWith(units, QueueTtsAll(said), t)
    /\ tts_queue' = QueueWith(tts_queue, units, QueueTtsAll(said))
    /\ turn' = [turn EXCEPT ![t].pc = "done", ![t].answer = Last(said)]

\* the entry of execLog for a gated action executed by turn t
Executed(act, subject, t, via) ==
    [act |-> act, subject |-> subject, by |-> t, via |-> via,
     close |-> pending_close_window, system |-> pending_system_action]

\* handle_local_command: if pending_close_window: ...  (ok: w.close()
\* does not raise)
GrfiCloseConfirm(t) ==
    /\ turn[t].pc = "grfi"
    /\ ~stop_flag
    /\ pending_close_window # "none"
    /\ IF CommandLower(t) \in CloseYes(variant)
       THEN \E ok \in BOOLEAN :
            /\ pending_close_window' = "none"
            /\ execLog' = IF ok
                          THEN Append(execLog,
                                   Executed("close", pending_close_window, t,
                                            "confirmation"))
                          ELSE execLog
            /\ LocalReply(t, IF ok THEN << <<"closed">> >>
                             ELSE << <<"could not close window">> >>)
       ELSE IF CommandLower(t) \in CloseNo(variant)
       THEN /\ pending_close_window' = "none"
            /\ LocalReply(t, << <<"cancelled closing">> >>)
            /\ UNCHANGED execLog
       ELSE /\ LocalReply(t, << <<"please answer yes or no">> >>)
            /\ UNCHANGED <<pending_close_window, execLog>>
    /\ UNCHANGED <<variant, stop_flag, pending_system_action, current_file,
                   memory_file, typing, sd_active, worker, ui_running,
                   timers, nStops, sr_handle, sr_listeners, sr_started,
                   synthLog, playLog, ttsFailed, interrupted, atStop>>

\* handle_local_command: if pending_system_action: ...
GrfiSystemConfirm(t) ==
    /\ turn[t].pc = "grfi"
    /\ ~stop_flag
    /\ pending_close_window = "none"
    /\ pending_system_action # "none"
    /\ IF CommandLower(t) \in SysYes(variant)
       THEN /\ pending_system_action' = "none"
            /\ execLog' = Append(execLog,
                              Executed(pending_system_action, "system", t,
                                       "confirmation"))
            /\ LocalReply(t, << <<pending_system_action>> >>)
       ELSE IF CommandLower(t) \in SysNo(variant)
       THEN /\ pending_system_action' = "none"
            /\ LocalReply(t, << <<"cancelled">> >>)
            /\ UNCHANGED execLog
       ELSE /\ LocalReply(t, << <<"please answer yes or no">> >>)
            /\ UNCHANGED <<pending_system_action, execLog>>
    /\ UNCHANGED <<variant, stop_flag, pending_close_window, current_file,
                   memory_file, typing, sd_active, worker, ui_running,
                   timers, nStops, sr_handle, sr_listeners, sr_started,
                   synthLog, playLog, ttsFailed, interrupted, atStop>>

(***************************************************************************)
(* handle_local_command: what the rule of a kind does.  w is the window    *)
(* the desktop finds ("none": no window), ok whether the rule's own side   *)
(* effect succeeds (the file is created, the ESP32 is connected).          *)
(***************************************************************************)
GateOf(kind) ==
    CASE kind = "gate shutdown" -> "shutdown"
      [] kind = "gate restart" -> "restart"
      [] kind = "gate log off" -> "log off"
      [] OTHER -> "none"

\* the local_commands entry of a kind, when it is one of the system actions
TableActionOf(kind) ==
    CASE kind = "table shutdown" -> "shutdown"
      [] kind = "table restart" -> "restart"
      [] kind = "table log off" -> "log off"
      [] OTHER -> "none"

\* pending_system_action after the rule
SystemAfter(kind, before) ==
    IF GateOf(kind) # "none" THEN GateOf(kind) ELSE before

\* pending_close_window after the rule
CloseAfter(kind, w, before) ==
    IF kind = "gate close" /\ w # "none" THEN w ELSE before

\* current_file after the rule
FileAfter(kind, cmd, ok, before) ==
    IF kind = "create file" /\ ok THEN FileNameOf(cmd) ELSE before

\* the gated actions the rule executes itself
ExecutedBy(kind, t) ==
    IF TableActionOf(kind) # "none"
    THEN << Executed(TableActionOf(kind), "system", t, "table") >>
    ELSE <<>>

\* the texts the turn passes to queue_tts, in order
SaidBy(kind, w, ok) ==
    CASE kind = "gate close" /\ w = "none" -> << <<"no window found">> >>
      [] kind = "create file" /\ ~ok -> << <<"failed to create file">> >>
      [] kind = "unlock pc" /\ ok ->
             << <<"unlocking your pc">>, <<"trying to unlock">> >>
      [] kind = "unlock pc" /\ ~ok -> << <<"esp32 not connected">> >>
      [] OTHER -> << <<kind>> >>

\* handle_local_command from "# time / date" on, and what
\* get_response_from_input does with its result: a local reply, or
\* safe_insert(user_input); set_typing(True); Thread(...).start()
RulesStep(t) ==
    /\ \E kind \in {Route(variant, CommandLower(t), current_file)} :
           IF kind = "generate"
           THEN /\ turn' = [turn EXCEPT ![t].pc = "s_fetch"]
                /\ typing' = TRUE
                /\ UNCHANGED <<pending_close_window, pending_system_action,
                               current_file, memory, execLog, units,
                               tts_queue>>
           ELSE \E w \in Windows \cup {"none"}, ok \in BOOLEAN :
                /\ pending_system_action' = SystemAfter(kind, pending_system_action)
                /\ pending_close_window' = CloseAfter(kind, w, pending_close_window)
                /\ current_file' = FileAfter(kind, CommandLower(t), ok, current_file)
                /\ execLog' = execLog \o ExecutedBy(kind, t)
                /\ LocalReply(t, SaidBy(kind, w, ok))
                /\ UNCHANGED typing
    /\ UNCHANGED <<variant, stop_flag, memory_file, sd_active, worker,
                   ui_running, timers, nStops, sr_handle, sr_listeners,
                   sr_started, synthLog, playLog, ttsFailed, interrupted, atStop>>

\* get_response_from_input when no confirmation is pending, run without
\* another thread in between
GrfiRules(t) ==
    /\ turn[t].pc = "grfi"
    /\ ~stop_flag
    /\ pending_close_window = "none"
    /\ pending_system_action = "none"
    /\ RulesStep(t)

\* get_response_from_input up to "# time / date": the stop flag is clear and
\* handle_local_command finds neither confirmation pending
GrfiPassesConfirmations(t) ==
    /\ turn[t].pc = "grfi"
    /\ ~stop_flag
    /\ pending_close_window = "none"
    /\ pending_system_action = "none"
    /\ turn' = [turn EXCEPT ![t].pc = "rules"]
    /\ UNCHANGED <<shared, speech, ui_running, timers, nStops, sr_handle,
                   sr_listeners, sr_started, logs>>

\* the rest of get_response_from_input, for a thread that found no
\* confirmation pending
GrfiRulesLate(t) ==
    /\ turn[t].pc = "rules"
    /\ RulesStep(t)

\* the rules whose pyautogui call is outside any try: the tab, volume,
\* mouse, type, press and scroll rules
UnguardedKinds ==
    {"new tab", "close tab", "next tab", "previous tab", "volume up",
     "volume down", "volume mute", "volume unmute", "mouse", "type", "press",
     "scroll"}

\* get_response_from_input when the pyautogui call of the rule raises: the
\* exception leaves handle_local_command and get_response_from_input; in
\* pt2 a spoken utterance is handled in the listener thread, which the
\* exception ends (callback catches the recognizer's errors only)
GrfiRaises(t) ==
    /\ turn[t].pc = "grfi"
    /\ ~stop_flag
    /\ pending_close_window = "none"
    /\ pending_system_action = "none"
    /\ Route(variant, CommandLower(t), current_file) \in UnguardedKinds
    /\ turn' = [turn EXCEPT ![t].pc = "done", ![t].raised = TRUE]
    /\ sr_listeners' = IF variant = "pt2" /\ turn[t].src = "speech"
                       THEN sr_listeners \ {turn[t].listener}
                       ELSE sr_listeners
    /\ UNCHANGED <<shared, speech, ui_running, timers, nStops, sr_handle,
                   sr_started, logs>>

\* a save that keeps the oldest entries of the history instead of the latest
SaveOldest(messages) ==
    LET system_messages == SelectSeq(messages, LAMBDA m : m.role = "system")
        others == SelectSeq(messages, LAMBDA m : m.role # "system")
    IN  system_messages
            \o SubSeq(others, 1, IF Len(others) > HistoryLimit
                                 THEN HistoryLimit ELSE Len(others))

\* a save that writes the system entries only
SaveSystemOnly(messages) ==
    SelectSeq(messages, LAMBDA m : m.role = "system")

(***************************************************************************)
(* stream_response_thread.                                                 *)
(***************************************************************************)
\* save_memory(messages): what is written to memory.json
SaveMemory(messages) ==
    LET system_messages == SelectSeq(messages, LAMBDA m : m.role = "system")
        others == SelectSeq(messages, LAMBDA m : m.role # "system")
        history == IF Len(others) > HistoryLimit
                   THEN SubSeq(others, Len(others) - HistoryLimit + 1, Len(others))
                   ELSE others
    IN  system_messages \o history

UserEntry(t) == [role |-> "user", content |-> turn[t].input, turn |-> t]

AssistantEntry(t) == [role |-> "assistant", content |-> turn[t].reply, turn |-> t]

\* the sentence units the loop body queues for the buffer
BodySentences(buffer) == AllButLast(SplitSentences(buffer))

\* a loop body that drops the remainder instead of keeping it
BodyRemainderLost(buffer) == <<>>

\* the buffer the loop body keeps
BodyRemainder(buffer) == Last(SplitSentences(buffer))

\* the texts queued after the loop, the stop flag being stop
\* (if buffer.strip() and not stop_flag.is_set(): queue_tts(buffer))
FlushTexts(buffer, stop) ==
    IF Strip(buffer) # <<>> /\ ~stop THEN <<buffer>> ELSE <<>>

\* the loop is left: the remainder is queued unless the stop flag is set
LoopExit(t) ==
    /\ units' = UnitsWith(units, QueueTtsAll(FlushTexts(turn[t].buffer, stop_flag)), t)
    /\ tts_queue' = QueueWith(tts_queue, units,
                              QueueTtsAll(FlushTexts(turn[t].buffer, stop_flag)))
    /\ turn' = [turn EXCEPT ![t].pc = "s_mem", ![t].buffer = <<>>]

\* the loop body: reply += part; append_partial(part); buffer += part; the
\* complete sentences are queued, the remainder stays in the buffer
LoopBody(t, part) ==
    /\ units' = UnitsWith(units,
                          QueueTtsAll(BodySentences(turn[t].buffer \o part)), t)
    /\ tts_queue' = QueueWith(tts_queue, units,
                              QueueTtsAll(BodySentences(turn[t].buffer \o part)))
    /\ turn' = [turn EXCEPT ![t].reply = @ \o part,
                            ![t].buffer = BodyRemainder(turn[t].buffer \o part),
                            ![t].nchunks = @ + 1]

\* for chunk in response: the backend delivers a fragment;
\* if stop_flag.is_set(): break, else the loop body
StreamChunk(t, fragments, maxChunks) ==
    /\ turn[t].pc = "s_fetch"
    /\ turn[t].nchunks < maxChunks
    /\ \E part \in fragments :
           IF stop_flag THEN LoopExit(t) ELSE LoopBody(t, part)
    /\ UNCHANGED <<shared, sd_active, worker, ui_running, timers, nStops,
                   sr_handle, sr_listeners, sr_started, synthLog, playLog,
                   execLog, ttsFailed, interrupted, atStop>>

\* for chunk in response: the stream ends
StreamEnds(t) ==
    /\ turn[t].pc = "s_fetch"
    /\ LoopExit(t)
    /\ UNCHANGED <<shared, sd_active, worker, ui_running, timers, nStops,
                   sr_handle, sr_listeners, sr_started, synthLog, playLog,
                   execLog, ttsFailed, interrupted, atStop>>

\* an error handler that records the turn as far as it got
MemoryWithPartialTurn(m, t) == m \o <<UserEntry(t), AssistantEntry(t)>>

\* the memory after the except clause: the appends were not reached
MemoryAfterError(m, t) == m

\* an error handler with no finally clause: the indicator stays on
StreamFailsLeavesTyping(t) ==
    /\ turn[t].pc = "s_fetch"
    /\ turn' = [turn EXCEPT ![t].pc = "done", ![t].error = TRUE]
    /\ UNCHANGED <<shared, speech, ui_running, timers, nStops, sr_handle,
                   sr_listeners, sr_started, logs>>

\* ollama.chat or the iteration raises: except Exception shows the error,
\* finally: set_typing(False)
StreamFails(t) ==
    /\ turn[t].pc = "s_fetch"
    /\ turn' = [turn EXCEPT ![t].pc = "done", ![t].error = TRUE]
    /\ memory' = MemoryAfterError(memory, t)
    /\ typing' = FALSE
    /\ UNCHANGED <<variant, stop_flag, pending_close_window,
                   pending_system_action, current_file, memory_file,
                   speech, ui_running, timers, nStops, sr_handle, sr_listeners,
                   sr_started, logs>>

\* the memory after the turn's two entries are appended
MemoryAfterTurn(m, t) == m \o <<UserEntry(t), AssistantEntry(t)>>

\* assistant.py: with memory_lock: append the user entry, append the
\* assistant entry, save_memory(memory); finally: set_typing(False)
StreamMemory(t) ==
    /\ variant = "assistant"
    /\ turn[t].pc = "s_mem"
    /\ memory' = MemoryAfterTurn(memory, t)
    /\ memory_file' = SaveMemory(MemoryAfterTurn(memory, t))
    /\ typing' = FALSE
    /\ turn' = [turn EXCEPT ![t].pc = "done"]
    /\ UNCHANGED <<variant, stop_flag, pending_close_window,
                   pending_system_action, current_file, speech, ui_running,
                   timers, nStops, sr_handle, sr_listeners, sr_started, logs>>

\* pt2: memory.append({'role':'user', ...}), with no lock
StreamMemoryUser(t) ==
    /\ variant = "pt2"
    /\ turn[t].pc = "s_mem"
    /\ memory' = Append(memory, UserEntry(t))
    /\ turn' = [turn EXCEPT ![t].pc = "s_mem_asst"]
    /\ UNCHANGED <<variant, stop_flag, pending_close_window,
                   pending_system_action, current_file, memory_file, typing,
                   speech, ui_running, timers, nStops, sr_handle, sr_listeners,
                   sr_started, logs>>

\* pt2: memory.append({'role':'assistant', ...}); save_memory(memory);
\* finally: set_typing(False)
StreamMemoryAssistant(t) ==
    /\ turn[t].pc = "s_mem_asst"
    /\ memory' = Append(memory, AssistantEntry(t))
    /\ memory_file' = SaveMemory(Append(memory, AssistantEntry(t)))
    /\ typing' = FALSE
    /\ turn' = [turn EXCEPT ![t].pc = "done"]
    /\ UNCHANGED <<variant, stop_flag, pending_close_window,
                   pending_system_action, current_file, speech, ui_running,
                   timers, nStops, sr_handle, sr_listeners, sr_started, logs>>

(***************************************************************************)
(* Speech recognition: the listener thread calls the callback for each     *)
(* phrase it captured (sr_callback in assistant.py, callback in pt2).      *)
(***************************************************************************)
\* the places at which a turn keeps the listener thread that called it:
\* pt2 runs get_response_from_input on the listener thread
CallbackPcs(v) == IF v = "assistant" THEN {"cb_wait"} ELSE {"grfi"}

ListenerBusy(l) ==
    \E i \in DOMAIN turn :
        turn[i].listener = l /\ turn[i].pc \in CallbackPcs(variant)

\* sr_callback: whether a recognized text is taken (if text and len(text) > 2);
\* pt2 takes every text
Taken(v, text) == v = "assistant" => Len(text) > 2

\* a running listener captured a phrase and calls the callback, the stop
\* flag is not set (if stop_flag.is_set(): return) and recognize_google
\* returns a text that is taken.  assistant.py: stop_flag.set(), then wait
\* 0.1 s.  pt2: safe_insert(text); get_response_from_input(text).
SpeechRecognized(inputs, maxTurns) ==
    /\ Len(turn) < maxTurns
    /\ ~stop_flag
    /\ \E l \in sr_listeners, text \in inputs :
        /\ ~ListenerBusy(l)
        /\ Taken(variant, text)
        /\ IF variant = "assistant"
           THEN /\ stop_flag' = TRUE
                /\ turn' = Append(turn, NewTurn("speech", text, "cb_wait", l))
           ELSE /\ UNCHANGED stop_flag
                /\ turn' = Append(Supersede(turn),
                                  NewTurn("speech", text, "grfi", l))
    /\ interrupted' = (interrupted \/ OutputPending)
    /\ UNCHANGED <<variant, pending_close_window, pending_system_action,
                   current_file, memory, memory_file, typing, speech,
                   ui_running, timers, nStops, sr_handle, sr_listeners,
                   sr_started, units, synthLog, playLog, execLog, ttsFailed,
                   atStop>>

\* assistant.py after the 0.1 s: stop_flag.clear();
\* Thread(target=get_response_from_input, args=(text,)).start()
CallbackDispatch(t) ==
    /\ turn[t].pc = "cb_wait"
    /\ stop_flag' = FALSE
    /\ turn' = [Supersede(turn) EXCEPT ![t].pc = "grfi"]
    /\ UNCHANGED <<variant, pending_close_window, pending_system_action,
                   current_file, memory, memory_file, typing, speech,
                   ui_running, timers, nStops, sr_handle, sr_listeners,
                   sr_started, logs>>

(***************************************************************************)
(* The Stop and Start buttons.                                             *)
(***************************************************************************)
\* a stop_action whose drain loop leaves the last entry on the queue
DrainedButLast(q) == IF q = <<>> THEN <<>> ELSE <<q[Len(q)]>>

\* stop_action: while not tts_queue.empty(): tts_queue.get_nowait()
Drained(q) == <<>>

\* a stop_action whose stop_sr_background forgets the handle and leaves the
\* listener running
StopPressedKeepsListener(maxStops) ==
    /\ ~GuiBusy
    /\ variant = "assistant" => ui_running
    /\ nStops < maxStops
    /\ nStops' = nStops + 1
    /\ stop_flag' = TRUE
    /\ sd_active' = {}
    /\ tts_queue' = Drained(tts_queue)
    /\ IF variant = "assistant"
       THEN /\ sr_listeners' = sr_listeners
            /\ sr_handle' = 0
            /\ ui_running' = FALSE
            /\ UNCHANGED timers
       ELSE /\ timers' = timers + 1
            /\ UNCHANGED <<sr_listeners, sr_handle, ui_running>>
    /\ turn' = MarkStopped(turn)
    /\ interrupted' = TRUE
    /\ atStop' = [queued |-> {tts_queue[i] : i \in DOMAIN tts_queue},
                  playing |-> sd_active]
    /\ UNCHANGED <<variant, pending_close_window, pending_system_action,
                   current_file, memory, memory_file, typing, worker,
                   sr_started, units, synthLog, playLog, execLog, ttsFailed>>

\* stop_action: stop_flag.set(); sd.stop(); the queue is drained;
\* assistant.py: stop_sr_background(), the inputs and Stop are disabled and
\* Start is enabled; pt2: Thread(target=clear_flag).start()
StopPressed(maxStops) ==
    /\ ~GuiBusy
    /\ variant = "assistant" => ui_running
    /\ nStops < maxStops
    /\ nStops' = nStops + 1
    /\ stop_flag' = TRUE
    /\ sd_active' = {}
    /\ tts_queue' = Drained(tts_queue)
    /\ IF variant = "assistant"
       THEN /\ sr_listeners' = sr_listeners \ {sr_handle}
            /\ sr_handle' = 0
            /\ ui_running' = FALSE
            /\ UNCHANGED timers
       ELSE /\ timers' = timers + 1
            /\ UNCHANGED <<sr_listeners, sr_handle, ui_running>>
    /\ turn' = MarkStopped(turn)
    /\ interrupted' = TRUE
    /\ atStop' = [queued |-> {tts_queue[i] : i \in DOMAIN tts_queue},
                  playing |-> sd_active]
    /\ UNCHANGED <<variant, pending_close_window, pending_system_action,
                   current_file, memory, memory_file, typing, worker,
                   sr_started, units, synthLog, playLog, execLog, ttsFailed>>

StopAction == StopPressed(MaxStops)

\* pt2: clear_flag after its time.sleep(0.6): stop_flag.clear()
ClearFlag ==
    /\ timers > 0
    /\ timers' = timers - 1
    /\ stop_flag' = FALSE
    /\ UNCHANGED <<variant, pending_close_window, pending_system_action,
                   current_file, memory, memory_file, typing, speech, turn,
                   ui_running, nStops, sr_handle, sr_listeners, sr_started,
                   logs>>

\* assistant.py, start_action with the stop flag set: stop_flag.clear(), the
\* inputs are enabled, start_sr_background() starts a listener (ok) or fails
\* (sr_stop_listening = None).  With the flag clear it only shows a message.
StartAction ==
    /\ variant = "assistant"
    /\ ~GuiBusy
    /\ ~ui_running
    /\ stop_flag
    /\ stop_flag' = FALSE
    /\ ui_running' = TRUE
    /\ \E ok \in BOOLEAN :
        IF ok /\ sr_started < MaxListeners
        THEN /\ sr_started' = sr_started + 1
             /\ sr_listeners' = sr_listeners \cup {sr_started + 1}
             /\ sr_handle' = sr_started + 1
        ELSE /\ sr_handle' = 0
             /\ UNCHANGED <<sr_started, sr_listeners>>
    /\ UNCHANGED <<variant, pending_close_window, pending_system_action,
                   current_file, memory, memory_file, typing, speech, turn,
                   timers, nStops, logs>>

(***************************************************************************)
(* The program.                                                            *)
(***************************************************************************)
\* the state after start-up, memory being what load_memory() returned
InitWith(loaded) ==
    /\ variant \in {"assistant", "pt2"}
    /\ stop_flag = FALSE
    /\ pending_close_window = "none"
    /\ pending_system_action = "none"
    /\ current_file = <<>>
    /\ memory = loaded
    /\ memory_file = loaded
    /\ typing = FALSE
    /\ tts_queue = <<>>
    /\ sd_active = {}
    /\ worker = [pc |-> "get", unit |-> 0]
    /\ turn = <<>>
    /\ ui_running = TRUE
    /\ timers = 0
    /\ nStops = 0
    /\ sr_handle = IF variant = "assistant" THEN 1 ELSE 0
    /\ sr_listeners = {1}
    /\ sr_started = 1
    /\ units = <<>>
    /\ synthLog = <<>>
    /\ playLog = <<>>
    /\ execLog = <<>>
    /\ ttsFailed = 0
    /\ interrupted = FALSE
    /\ atStop = [queued |-> {}, playing |-> {}]

\* a machine with no memory.json
Init == InitWith(<<SystemEntry>>)

Next ==
    \/ Worker
    \/ TypedInput(Utterances, MaxTurns)
    \/ SpeechRecognized(Utterances, MaxTurns)
    \/ \E t \in DOMAIN turn : GrfiStopped(t)
    \/ \E t \in DOMAIN turn : GrfiCloseConfirm(t)
    \/ \E t \in DOMAIN turn : GrfiSystemConfirm(t)
    \/ \E t \in DOMAIN turn : GrfiRules(t)
    \/ \E t \in DOMAIN turn : StreamChunk(t, StreamFragments, MaxChunks)
    \/ \E t \in DOMAIN turn : StreamEnds(t)
    \/ \E t \in DOMAIN turn : StreamFails(t)
    \/ \E t \in DOMAIN turn : StreamMemory(t)
    \/ \E t \in DOMAIN turn : StreamMemoryUser(t)
    \/ \E t \in DOMAIN turn : StreamMemoryAssistant(t)
    \/ \E t \in DOMAIN turn : CallbackDispatch(t)
    \/ StopAction
    \/ ClearFlag
    \/ StartAction

Spec == Init /\ [][Next]_vars

(***************************************************************************)
(* The program with a user who waits: a new utterance comes only when no   *)
(* turn is in progress and nothing is queued or spoken, and Stop is not    *)
(* clicked.                                                                *)
(***************************************************************************)
\* the fragments the backend streams in QuietSpec
QuietFragments == { <<"a", ".", " ">>, <<"b">> }

QuietTyped == ~OutputPending /\ TypedInput(Utterances, MaxTurns)

QuietSpeech == ~OutputPending /\ SpeechRecognized(Utterances, MaxTurns)

QuietNext ==
    \/ Worker
    \/ QuietTyped
    \/ QuietSpeech
    \/ \E t \in DOMAIN turn : GrfiCloseConfirm(t)
    \/ \E t \in DOMAIN turn : GrfiSystemConfirm(t)
    \/ \E t \in DOMAIN turn : GrfiRules(t)
    \/ \E t \in DOMAIN turn : StreamChunk(t, QuietFragments, MaxQuietChunks)
    \/ \E t \in DOMAIN turn : StreamEnds(t)
    \/ \E t \in DOMAIN turn : StreamFails(t)
    \/ \E t \in DOMAIN turn : StreamMemory(t)
    \/ \E t \in DOMAIN turn : StreamMemoryUser(t)
    \/ \E t \in DOMAIN turn : StreamMemoryAssistant(t)
    \/ \E t \in DOMAIN turn : CallbackDispatch(t)

QuietSpec == Init /\ [][QuietNext]_vars

(***************************************************************************)
(* The sentence segmentation of one generative turn, for every stream of   *)
(* up to MaxSegFrags fragments of up to MaxFragLen characters.             *)
(***************************************************************************)
SegAlphabet == {"a", ".", " "}

SegFragments == UNION { [1..n -> SegAlphabet] : n \in 1..MaxFragLen }

SegUtterances == { <<"h", "i">> }

SegNext ==
    \/ TypedInput(SegUtterances, MaxSegTurns)
    \/ \E t \in DOMAIN turn : GrfiRules(t)
    \/ \E t \in DOMAIN turn : StreamChunk(t, SegFragments, MaxSegFrags)
    \/ \E t \in DOMAIN turn : StreamEnds(t)

SegSpec == Init /\ [][SegNext]_vars

(***************************************************************************)
(* Generative turns one after the other, each typed when the one before    *)
(* is complete.                                                            *)
(***************************************************************************)
AllTurnsDone == \A i \in DOMAIN turn : turn[i].pc = "done"

MemTyped == AllTurnsDone /\ TypedInput(SegUtterances, MaxMemTurns)

MemNext ==
    \/ MemTyped
    \/ \E t \in DOMAIN turn : GrfiRules(t)
    \/ \E t \in DOMAIN turn : StreamChunk(t, StreamFragments, MaxChunks)
    \/ \E t \in DOMAIN turn : StreamEnds(t)
    \/ \E t \in DOMAIN turn : StreamMemory(t)
    \/ \E t \in DOMAIN turn : StreamMemoryUser(t)
    \/ \E t \in DOMAIN turn : StreamMemoryAssistant(t)

MemSpec == Init /\ [][MemNext]_vars

(***************************************************************************)
(* The router and the confirmation gates, for typed and spoken commands.   *)
(***************************************************************************)
GateUtterances ==
    { W.shutdown, W.log_off, W.close, <<"O", "k", " ">>, W.no }

GateNext ==
    \/ TypedInput(GateUtterances, MaxGateTurns)
    \/ SpeechRecognized(GateUtterances, MaxGateTurns)
    \/ \E t \in DOMAIN turn : CallbackDispatch(t)
    \/ \E t \in DOMAIN turn : GrfiStopped(t)
    \/ \E t \in DOMAIN turn : GrfiCloseConfirm(t)
    \/ \E t \in DOMAIN turn : GrfiSystemConfirm(t)
    \/ \E t \in DOMAIN turn : GrfiRules(t)

GateSpec == Init /\ [][GateNext]_vars

(***************************************************************************)
(* Properties.                                                             *)
(***************************************************************************)
\* the entries of a memory that turn t appended
EntriesOf(m, t) == SelectSeq(m, LAMBDA e : e.turn = t)

\* the texts turn t put on the TTS queue, in order
UnitTexts(t) ==
    LET mine == SelectSeq(units, LAMBDA u : u.turn = t)
    IN  [i \in 1..Len(mine) |-> mine[i].text]

\* the units of a log
Logged(log) == {log[i] : i \in DOMAIN log}

\* the step on which the worker starts the synthesis of a unit
SynthesisStarts == worker.pc = "get" /\ worker'.pc = "synth"

\* C1: a generative turn whose stream was still running when Stop was
\* requested appends neither its user utterance nor its partial reply to the
\* conversation memory, and nothing of it is persisted.
C1_StoppedTurnLeavesMemoryAlone ==
    \A t \in DOMAIN turn :
        turn[t].stopped =>
            /\ EntriesOf(memory, t) = <<>>
            /\ EntriesOf(memory_file, t) = <<>>

\* C2: once a new utterance is dispatched to get_response_from_input while
\* an earlier generative turn is in progress, no sentence unit of the
\* earlier turn is synthesized or played afterwards, be it still queued or
\* already taken by the worker.
C2_SupersededTurnIsNotSpoken ==
    [][ /\ SynthesisStarts => ~turn[units[worker'.unit].turn].superseded
        /\ playLog' # playLog =>
               ~turn[units[Last(playLog')].turn].superseded ]_vars

\* C3: after a new utterance is dispatched while an earlier generative turn
\* is still streaming, the earlier turn's stream thread forwards no further
\* fragment to the display and enqueues no further sentence unit.
C3_SupersededStreamIsCancelled ==
    [][ \A t \in DOMAIN turn :
            turn[t].superseded =>
                /\ turn'[t].reply = turn[t].reply
                /\ UnitTexts(t)' = UnitTexts(t) ]_vars

\* C4: after Stop is requested during a generative turn, no sentence unit
\* of that turn is synthesized or played at any later time, also after the
\* stop flag has been cleared again.
C4_StoppedTurnIsNotSpoken ==
    [][ /\ SynthesisStarts => ~turn[units[worker'.unit].turn].stopped
        /\ playLog' # playLog =>
               ~turn[units[Last(playLog')].turn].stopped ]_vars

C6_UnitsConcatenateToFragments ==
    \A t \in DOMAIN turn :
        turn[t].pc = "s_mem" => Flatten(UnitTexts(t)) = turn[t].reply

\* C6, amended: the sentence units of an uncancelled generative turn,
\* concatenated in enqueue order, equal the concatenation of the streamed
\* fragments once whitespace is deleted from both: only whitespace is
\* dropped, no other character is lost, duplicated or moved.
C6_UnitsConcatenateToFragmentsButWhitespace ==
    \A t \in DOMAIN turn :
        turn[t].pc = "s_mem" =>
            /\ NoSpace(Flatten(UnitTexts(t))) = NoSpace(turn[t].reply)
            /\ Len(Flatten(UnitTexts(t))) <= Len(turn[t].reply)

\* C6, its case: a stream is segmented into two or more units, and the
\* units leave out some whitespace of it
C6_Witness ==
    \E t \in DOMAIN turn :
        /\ turn[t].pc = "s_mem"
        /\ Len(UnitTexts(t)) >= 2
        /\ Flatten(UnitTexts(t)) # turn[t].reply

\* a log lists the units 1, 2, ... in the order they were enqueued
InOrder(log) == \A i \in DOMAIN log : log[i] = i

\* the units the worker has taken from the queue
TakenUnits == Len(units) - Len(tts_queue)

\* the units enqueued are spoken once each, in enqueue order: the queue
\* holds the last units in order, every unit taken before is synthesized
\* and played, and nothing else is
SpokenOnceInOrder ==
    /\ tts_queue = [i \in 1..Len(tts_queue) |-> TakenUnits + i]
    /\ InOrder(synthLog)
    /\ playLog = synthLog
    /\ Len(synthLog) = IF worker.pc = "synth" THEN TakenUnits - 1 ELSE TakenUnits
    /\ worker.pc # "get" => worker.unit = TakenUnits

C9_MemoryIsBounded ==
    /\ Len(memory) <= Len(SelectSeq(memory, LAMBDA m : m.role = "system"))
                          + HistoryLimit
    /\ memory[1].role = "system"

\* C10: shutdown, restart, log off and the closing of a window are executed
\* only by an affirmative reply given while a confirmation of the matching
\* kind is pending; the local_commands entries 'shutdown', 'restart' and
\* 'log off' are never invoked.
C10_DestructiveActionsAreConfirmed ==
    \A i \in DOMAIN execLog :
        /\ execLog[i].via = "confirmation"
        /\ execLog[i].act = "close" =>
               /\ execLog[i].close = execLog[i].subject
               /\ execLog[i].subject \in Windows
               /\ CommandLower(execLog[i].by) \in CloseYes(variant)
        /\ execLog[i].act # "close" =>
               /\ execLog[i].act \in SystemActions
               /\ execLog[i].close = "none"
               /\ execLog[i].system = execLog[i].act
               /\ CommandLower(execLog[i].by) \in SysYes(variant)

\* C10, its case: a window was closed and a system action was executed, each
\* on a confirmation
C10_Witness ==
    /\ \E i \in DOMAIN execLog : execLog[i].act = "close"
    /\ \E i \in DOMAIN execLog : execLog[i].act \in SystemActions

(***************************************************************************)
(* Typed commands and replies to confirmations, one at a time.             *)
(***************************************************************************)
MaxReplyTurns == 3

ReplyUtterances ==
    { W.shutdown, W.close, W.yes, W.yes_jarvis, W.yes_please, W.yep, W.stop,
      W.ok, W.no, <<"h", "i">>,
      W.create_a_file \o <<" ">> \o W.light \o <<"s", " ">> \o W.on,
      W.time \o <<" ">> \o W.shutdown,
      W.close \o <<" ">> \o W.volume \o <<" ">> \o W.up,
      W.open_ \o W.screenshot,
      W.light }

ReplyNext ==
    \/ TypedInput(ReplyUtterances, MaxReplyTurns)
    \/ \E t \in DOMAIN turn : GrfiCloseConfirm(t)
    \/ \E t \in DOMAIN turn : GrfiSystemConfirm(t)
    \/ \E t \in DOMAIN turn : GrfiRules(t)

ReplySpec == Init /\ [][ReplyNext]_vars

\* the step on which get_response_from_input handles turn t's utterance
\* while a confirmation is pending
RepliesToConfirmation(t) ==
    /\ turn[t].pc = "grfi"
    /\ turn'[t] # turn[t]
    /\ ~stop_flag
    /\ pending_close_window # "none" \/ pending_system_action # "none"

\* the answers of the affirmative branches
AffirmativeAnswers ==
    { <<"closed">>, <<"could not close window">> }
        \cup { <<a>> : a \in SystemActions }

\* the answers of the negative branches
NegativeAnswers == { <<"cancelled closing">>, <<"cancelled">> }

\* the answer of the else branches
Reprompt == <<"please answer yes or no">>

\* C11: while a confirmation is pending, a reply is treated as affirmative
\* exactly when it is one of yes, y, yeah, yep, sure, confirm, ok and as
\* negative exactly when it is one of no, n, nah, cancel, stop, for both
\* kinds of confirmation and in both variants.
C11_ConfirmationWordSets ==
    [][ LET yes == {W.yes, W.y, W.yeah, W.yep, W.sure, W.confirm, W.ok}
            no == {W.no, W.n, W.nah, W.cancel, W.stop}
        IN  \A t \in DOMAIN turn :
                RepliesToConfirmation(t) =>
                    /\ turn'[t].answer \in AffirmativeAnswers
                           <=> CommandLower(t) \in yes
                    /\ turn'[t].answer \in NegativeAnswers
                           <=> CommandLower(t) \in no ]_vars


\* the Pending Confirmation that the reply of this step answers is cleared
PendingCleared ==
    IF pending_close_window # "none"
    THEN pending_close_window' = "none"
    ELSE pending_system_action' = "none"

\* the execLog entry of the gated action that is pending, executed by turn t
PendingExecuted(t) ==
    IF pending_close_window # "none"
    THEN Executed("close", pending_close_window, t, "confirmation")
    ELSE Executed(pending_system_action, "system", t, "confirmation")

\* C12: an affirmative reply to a pending confirmation clears it and
\* executes the gated action recorded when the gate was created (that
\* window, or that system action), once; a negative reply clears it and
\* executes no gated action.
C12_ReplyClearsAndExecutes ==
    [][ LET yes == {W.yes, W.y, W.yeah, W.yep, W.sure, W.confirm, W.ok}
            no == {W.no, W.n, W.nah, W.cancel, W.stop}
        IN  \A t \in DOMAIN turn :
                RepliesToConfirmation(t) =>
                    /\ CommandLower(t) \in yes =>
                           /\ PendingCleared
                           /\ turn'[t].answer \in AffirmativeAnswers
                           /\ execLog' \in {execLog,
                                            Append(execLog, PendingExecuted(t))}
                           /\ turn'[t].answer # <<"could not close window">>
                                  => execLog' # execLog
                    /\ CommandLower(t) \in no =>
                           /\ PendingCleared
                           /\ turn'[t].answer \in NegativeAnswers
                           /\ execLog' = execLog ]_vars


\* C13: while a confirmation is pending, a reply outside the affirmative and
\* negative sets leaves the pending confirmation unchanged, is answered by
\* the re-prompt, executes no gated action, and is neither routed nor sent
\* to the generative backend.
C13_OtherReplyReprompts ==
    [][ LET yes == {W.yes, W.y, W.yeah, W.yep, W.sure, W.confirm, W.ok}
            no == {W.no, W.n, W.nah, W.cancel, W.stop}
        IN  \A t \in DOMAIN turn :
                RepliesToConfirmation(t) /\ CommandLower(t) \notin yes \cup no =>
                    /\ pending_close_window' = pending_close_window
                    /\ pending_system_action' = pending_system_action
                    /\ turn'[t].pc = "done"
                    /\ turn'[t].answer = Reprompt
                    /\ execLog' = execLog ]_vars


(***************************************************************************)
(* Typed and spoken commands whose calls of handle_local_command overlap.  *)
(***************************************************************************)
MaxRaceTurns == 3

RaceUtterances == { W.shutdown, W.restart, W.close, W.cancel }

RaceNext ==
    \/ TypedInput(RaceUtterances, MaxRaceTurns)
    \/ SpeechRecognized(RaceUtterances, MaxRaceTurns)
    \/ \E t \in DOMAIN turn : CallbackDispatch(t)
    \/ \E t \in DOMAIN turn : GrfiStopped(t)
    \/ \E t \in DOMAIN turn : GrfiCloseConfirm(t)
    \/ \E t \in DOMAIN turn : GrfiSystemConfirm(t)
    \/ \E t \in DOMAIN turn : GrfiPassesConfirmations(t)
    \/ \E t \in DOMAIN turn : GrfiRulesLate(t)

RaceSpec == Init /\ [][RaceNext]_vars

\* C14: at most one confirmation is pending: pending_close_window and
\* pending_system_action are never both set, also when typed and spoken
\* commands are handled concurrently.
C14_AtMostOnePendingConfirmation ==
    pending_close_window = "none" \/ pending_system_action = "none"


\* C15: a gating command (shutdown, restart, log off, close window) that
\* arrives while a confirmation is pending overwrites it: afterwards the
\* pending confirmation is the one of the new command.
C15_NewGateOverwritesPending ==
    [][ \A t \in DOMAIN turn :
            RepliesToConfirmation(t) =>
                LET kind == Route(variant, CommandLower(t), current_file)
                IN  /\ GateOf(kind) # "none" =>
                           /\ pending_system_action' = GateOf(kind)
                           /\ pending_close_window' = "none"
                    /\ kind = "gate close" =>
                           \/ /\ pending_close_window' \in Windows
                              /\ pending_system_action' = "none"
                           \/ turn'[t].answer = <<"no window found">> ]_vars


\* the step on which turn t's utterance is handled by the rules of
\* handle_local_command
RoutedByRules(t) ==
    /\ turn[t].pc \in {"grfi", "rules"}
    /\ turn'[t] # turn[t]
    /\ turn'[t].pc # "rules"
    /\ turn[t].pc = "grfi" =>
           /\ ~stop_flag
           /\ pending_close_window = "none"
           /\ pending_system_action = "none"

\* C16: with no confirmation pending, an utterance that matches rules of
\* more than one category is handled by the category that is first in the
\* order time/date, system-action gating, file operations, window
\* management, tab/volume/brightness, site open/search, mouse/keyboard/
\* scroll/screenshot, hardware side-channel, generic site fallback,
\* local-command table, in both variants.
C16_FirstCategoryWins ==
    [][ LET rank(k) ==
                CASE k \in {"time", "date"} -> 1
                  [] GateOf(k) # "none" -> 2
                  [] k \in {"create file", "ai write", "no file"} -> 3
                  [] k \in {"gate close", "minimize", "maximize", "restore",
                            "switch to"} -> 4
                  [] k \in {"new tab", "close tab", "next tab", "previous tab",
                            "volume up", "volume down", "volume mute",
                            "volume unmute", "brightness set", "brightness up",
                            "brightness down"} -> 5
                  [] k \in {"play on site", "open site"} -> 6
                  [] k \in {"mouse", "type", "press", "scroll", "screenshot"} -> 7
                  [] k \in {"lock pc", "unlock pc", "light on", "light off",
                            "whatsapp", "system info"} -> 8
                  [] OTHER -> 10
        IN  \A t \in DOMAIN turn :
                RoutedByRules(t) =>
                    LET rules == Rules(variant, CommandLower(t), current_file)
                    IN  \A i \in DOMAIN rules :
                            rules[i].hit =>
                                rank(Route(variant, CommandLower(t), current_file))
                                    <= rank(rules[i].kind) ]_vars


\* whether cmd satisfies the test of some rule of handle_local_command: a
\* rule that returns, or the if of a rule none of whose branches is taken
\* ('light', 'volume', 'brightness', 'mouse', 'scroll' in command_lower)
RulePatternMatches(v, cmd, cf) ==
    \/ FirstHit(Rules(v, cmd, cf)) # 0
    \/ Contains(cmd, W.light)
    \/ Contains(cmd, W.volume)
    \/ Contains(cmd, W.brightness)
    \/ Contains(cmd, W.mouse)
    \/ Contains(cmd, W.scroll)

\* C17: with no confirmation pending, an utterance starts a generative turn
\* only if none of the router's rule patterns matches it; an utterance that
\* matches a rule pattern is answered as a local action and starts no
\* generative turn.
C17_GenerationOnlyWhenNoRuleMatches ==
    [][ \A t \in DOMAIN turn :
            RoutedByRules(t) =>
                (turn'[t].pc = "s_fetch"
                    <=> ~RulePatternMatches(variant, CommandLower(t),
                                            current_file)) ]_vars


\* C18: a turn answered by a local action or by a confirmation reply leaves
\* the conversation memory and the persisted memory file unchanged: neither
\* holds an entry of such a turn.
C18_LocalTurnLeavesMemoryAlone ==
    \A t \in DOMAIN turn :
        turn[t].answer # <<>> =>
            /\ EntriesOf(memory, t) = <<>>
            /\ EntriesOf(memory_file, t) = <<>>

\* C18, its case: a command was answered by a local action and the reply to
\* its confirmation by the confirmation branch
C18_Witness ==
    \E t \in DOMAIN turn, r \in DOMAIN turn :
        /\ turn[t].answer = <<"gate shutdown">>
        /\ turn[r].answer \in AffirmativeAnswers \cup NegativeAnswers


\* C19: if the generative backend raises before or during streaming, the
\* turn ends with the error shown, the conversation memory and the persisted
\* file hold nothing of it, and later utterances are accepted and routed.
C19_BackendErrorEndsTurn ==
    \A t \in DOMAIN turn :
        turn[t].error =>
            /\ turn[t].pc = "done"
            /\ EntriesOf(memory, t) = <<>>
            /\ EntriesOf(memory_file, t) = <<>>

\* C19, its case: a turn failed after a fragment was streamed, and of the
\* utterances that came after it one was answered locally or completed a
\* generative turn
C19_Witness ==
    \E t \in DOMAIN turn, r \in DOMAIN turn :
        /\ t < r
        /\ turn[t].error
        /\ turn[t].reply # <<>>
        /\ turn[r].pc = "done"
        /\ ~turn[r].error
        /\ turn[r].answer # <<>> \/ EntriesOf(memory, r) # <<>>


\* in m every user entry is immediately followed by the assistant entry of
\* the same turn
PairedIn(m) ==
    \A i \in DOMAIN m :
        m[i].role = "user" =>
            /\ i < Len(m)
            /\ m[i + 1].role = "assistant"
            /\ m[i + 1].turn = m[i].turn

\* C20: when two generative turns complete concurrently, each turn's user
\* entry is immediately followed in the conversation memory by the same
\* turn's assistant entry, and each save_memory call sees a memory made of
\* complete user/assistant pairs only, in both variants.
C20_MemoryHoldsCompletePairs ==
    /\ (\A t \in DOMAIN turn : turn[t].pc # "s_mem_asst") => PairedIn(memory)
    /\ PairedIn(memory_file)


\* C21: on completion of a generative turn, save_memory is called after
\* both the user entry and the assistant entry have been appended and before
\* the turn is finished: on the step that finishes the turn and clears the
\* typing indicator, memory and file hold its user entry followed by its
\* assistant entry.
C21_SavedBeforeTurnFinishes ==
    [][ \A t \in DOMAIN turn :
            turn[t].pc \in {"s_mem", "s_mem_asst"} /\ turn'[t].pc = "done" =>
                /\ ~typing'
                /\ EntriesOf(memory, t)' = <<UserEntry(t), AssistantEntry(t)>>
                /\ EntriesOf(memory_file, t)'
                       = <<UserEntry(t), AssistantEntry(t)>> ]_vars

\* C21, its case: two generative turns have completed, the indicator is
\* cleared
C21_Witness ==
    /\ ~typing
    /\ Len(turn) >= 2
    /\ \A t \in DOMAIN turn :
           turn[t].pc = "done" /\ turn[t].reply # <<>> /\ ~turn[t].stopped


\* C22: in assistant.py the stop is persistent: from stop_action until
\* start_action the stop flag stays set, no utterance is routed and no
\* synthesis starts; a speech callback that was running when Stop was
\* pressed neither clears the flag nor dispatches a turn.
C22_StopIsPersistent ==
    [][ variant = "assistant" /\ ~ui_running /\ ~ui_running' =>
            /\ stop_flag'
            /\ ~SynthesisStarts
            /\ \A t \in DOMAIN turn :
                   /\ ~RoutedByRules(t)
                   /\ ~RepliesToConfirmation(t)
                   /\ turn[t].pc = "cb_wait" => turn'[t].pc = "cb_wait" ]_vars


(***************************************************************************)
(* Typed and spoken commands whose side effect may raise.                  *)
(***************************************************************************)
MaxFaultTurns == 3

FaultNext ==
    \/ TypedInput({W.new_tab, W.volume \o <<" ">> \o W.up, W.system_info,
                   W.login_my_pc},
                  MaxFaultTurns)
    \/ SpeechRecognized({W.new_tab, W.volume \o <<" ">> \o W.up, W.system_info,
                   W.login_my_pc},
                        MaxFaultTurns)
    \/ \E t \in DOMAIN turn : CallbackDispatch(t)
    \/ \E t \in DOMAIN turn : GrfiStopped(t)
    \/ \E t \in DOMAIN turn : GrfiRules(t)
    \/ \E t \in DOMAIN turn : GrfiRaises(t)

FaultSpec == Init /\ [][FaultNext]_vars

\* C23: a failure raised by the side effect of a local action is turned
\* into a result text and does not propagate out of
\* get_response_from_input, so the capture thread that dispatched the
\* utterance is not terminated by it.
C23_LocalActionFailureIsContained ==
    \A t \in DOMAIN turn :
        /\ ~turn[t].raised
        /\ turn[t].src = "speech" => turn[t].listener \in sr_listeners

\* C26: a turn answered by a local action or a confirmation reply puts
\* exactly one entry on the TTS queue, the result text of the action.
C26_LocalTurnQueuesOneEntry ==
    [][ \A t \in DOMAIN turn :
            /\ RepliesToConfirmation(t) \/ RoutedByRules(t)
            /\ turn'[t].pc = "done" /\ ~turn'[t].raised
            => UnitTexts(t)' = <<turn'[t].answer>> ]_vars

\* C27: when the stop flag is set while a generative stream is running, the
\* stream loop exits at the next fragment without raising an error, and no
\* fragment received after the flag was set is added to the reply, shown on
\* the display or enqueued for speech: the next step of the stream thread of
\* a turn whose stream was stopped leaves the loop (unless the backend
\* itself fails), and the turn's reply and its sentence units stay as they
\* were when the flag was set.
C27_StoppedStreamTakesNoFragment ==
    [][ \A t \in DOMAIN turn :
            turn[t].stopped /\ turn[t].pc \in StreamingPcs =>
                /\ turn'[t].reply = turn[t].reply
                /\ UnitTexts(t)' = UnitTexts(t)
                /\ turn'[t].nchunks = turn[t].nchunks
                /\ turn'[t].pc # turn[t].pc =>
                       turn'[t].pc = "s_mem" \/ turn'[t].error ]_vars


(***************************************************************************)
(* The waiting user's program with a worker thread that keeps running and  *)
(* an audio device that plays every unit to its end.                       *)
(***************************************************************************)
QuietFairSpec ==
    /\ Init
    /\ [][QuietNext]_vars
    /\ WF_vars(Worker)
    /\ WF_vars(PlaybackEnds)

\* a round of the poll loop in which the status of the playback stream
\* cannot be read.  assistant.py: sd.get_stream() raises, stream = None and
\* active = None; on the stop flag sd.stop() and break, else ("if active is
\* not None" is skipped) sleep 0.05 s and poll again.  pt2:
\* sd.get_stream().active raises, "TTS playback error", speak_text returns.
SpeakPollUnread ==
    /\ worker.pc \in {"poll", "poll_unread"}
    /\ worker.pc = "poll" => ttsFailed < MaxTtsFailures
    /\ worker.pc = "poll_unread" => stop_flag
    /\ ttsFailed' = IF worker.pc = "poll" THEN ttsFailed + 1 ELSE ttsFailed
    /\ IF variant = "assistant" /\ ~stop_flag
       THEN /\ worker' = [worker EXCEPT !.pc = "poll_unread"]
            /\ UNCHANGED sd_active
       ELSE /\ worker' = [pc |-> "get", unit |-> 0]
            /\ sd_active' = IF variant = "assistant" THEN {} ELSE sd_active
    /\ UNCHANGED <<shared, tts_queue, threads, units, synthLog, playLog,
                   execLog, interrupted, atStop>>

(***************************************************************************)
(* The same program with a playback stream whose status may become        *)
(* unreadable.                                                             *)
(***************************************************************************)
PollFairSpec ==
    /\ Init
    /\ [][QuietNext \/ SpeakPollUnread]_vars
    /\ WF_vars(Worker)
    /\ WF_vars(PlaybackEnds)
    /\ WF_vars(SpeakPollUnread)

C25_EveryUtteranceIsRouted ==
    [][ \A t \in DOMAIN turn :
            /\ ui_running /\ timers = 0
            /\ turn[t].pc = "grfi" /\ turn'[t].pc # "grfi"
            => \/ RepliesToConfirmation(t)
               \/ RoutedByRules(t)
               \/ turn'[t].pc = "rules" ]_vars


\* C28: for every TTS entry the worker starts speaking, speak_text
\* eventually returns (when the playback finishes, when Stop is set, or on
\* an error), also when the status of the playback stream cannot be read:
\* the worker is never stuck on one entry.
C28_SpeakTextReturns == (worker.pc # "get") ~> (worker.pc = "get")


\* C29: stop_action and barge-in do not clear or change an existing pending
\* confirmation, only an utterance routed through the confirmation branch
\* of handle_local_command does: a pending confirmation that exists changes
\* only in a step in which a turn is answered by the confirmation branch.
C29_OnlyConfirmationBranchChangesPending ==
    [][ \/ pending_close_window \notin {"none", pending_close_window'}
        \/ pending_system_action \notin {"none", pending_system_action'}
        => \E t \in DOMAIN turn : RepliesToConfirmation(t) ]_vars


(***************************************************************************)
(* The end of the stream loop step by step, with the Stop and Start        *)
(* buttons: the break and the test before the flush read the stop flag one *)
(* after the other.                                                        *)
(***************************************************************************)
\* for chunk in response: if stop_flag.is_set(): break
LoopBreaks(t) ==
    /\ turn[t].pc = "s_fetch"
    /\ stop_flag
    /\ turn' = [turn EXCEPT ![t].pc = "s_flush"]
    /\ UNCHANGED <<shared, speech, ui_running, timers, nStops, sr_handle,
                   sr_listeners, sr_started, logs>>

\* after the break: if buffer.strip() and not stop_flag.is_set():
\* queue_tts(buffer)
LoopFlush(t) ==
    /\ turn[t].pc = "s_flush"
    /\ LoopExit(t)
    /\ UNCHANGED <<shared, sd_active, worker, ui_running, timers, nStops,
                   sr_handle, sr_listeners, sr_started, synthLog, playLog,
                   execLog, ttsFailed, interrupted, atStop>>

FlushNext ==
    \/ TypedInput(SegUtterances, MaxSegTurns)
    \/ \E t \in DOMAIN turn : GrfiRules(t)
    \/ \E t \in DOMAIN turn :
           StreamChunk(t, { <<"a">>, <<"a", ".", " ">>, <<" ">> }, MaxSegFrags)
    \/ \E t \in DOMAIN turn : StreamEnds(t)
    \/ \E t \in DOMAIN turn : LoopBreaks(t)
    \/ \E t \in DOMAIN turn : LoopFlush(t)
    \/ StopAction
    \/ ClearFlag
    \/ StartAction

FlushSpec == Init /\ [][FlushNext]_vars

\* C30: when an uncancelled stream ends with a non-whitespace remainder in
\* the segmenter buffer, the remainder is enqueued exactly once, as the last
\* sentence unit of the turn; when the stream was cancelled (the loop was
\* left by the break, or the stop flag is set as the stream ends) the
\* remainder is not enqueued.
C30_RemainderFlushedUnlessCancelled ==
    [][ \A t \in DOMAIN turn :
            turn[t].pc \in {"s_fetch", "s_flush"} /\ turn'[t].pc = "s_mem" =>
                IF turn[t].pc = "s_fetch" /\ ~stop_flag
                       /\ Strip(turn[t].buffer) # <<>>
                THEN UnitTexts(t)' = Append(UnitTexts(t), Strip(turn[t].buffer))
                ELSE UnitTexts(t)' = UnitTexts(t) ]_vars


\* C31: after every save_memory call the persisted content consists of all
\* system entries of the memory followed by the most recent min(20, n) of
\* its n non-system entries, in their original relative order.
C31_SavedIsSystemThenLatestHistory ==
    [][ (\E t \in DOMAIN turn :
             turn[t].pc \in {"s_mem", "s_mem_asst"} /\ turn'[t].pc = "done")
        => LET sys == SelectSeq(memory', LAMBDA m : m.role = "system")
               non == SelectSeq(memory', LAMBDA m : m.role # "system")
               n == Len(non)
               k == IF n < HistoryLimit THEN n ELSE HistoryLimit
           IN  /\ Len(memory_file') = Len(sys) + k
               /\ \A i \in 1..Len(sys) : memory_file'[i] = sys[i]
               /\ \A j \in 1..k : memory_file'[Len(sys) + j] = non[n - k + j]
      ]_vars

\* C31, its case: the memory holds more than 20 non-system entries and the
\* file holds the system entry and the latest 20
C31_Witness ==
    /\ Len(memory) > HistoryLimit + 1
    /\ Len(memory_file) = HistoryLimit + 1
    /\ memory_file[1].role = "system"
    /\ memory_file[2] # memory[2]
    /\ Last(memory_file) = Last(memory)


\* C32: while the stop flag is set get_response_from_input is a no-op: the
\* utterance is not routed, the pending confirmations, the current-file
\* pointer, the conversation memory and the TTS queue are unchanged and no
\* generation thread is started.
C32_StoppedDispatchIsNoOp ==
    [][ \A t \in DOMAIN turn :
            turn[t].pc = "grfi" /\ stop_flag /\ turn'[t].pc # "grfi" =>
                /\ turn'[t] = [turn[t] EXCEPT !.pc = "done"]
                /\ UNCHANGED <<pending_close_window, pending_system_action,
                               current_file, memory, memory_file, tts_queue,
                               units, execLog, typing>> ]_vars

\* C32, its case: an utterance was handed to get_response_from_input while
\* the stop flag was set and the call has returned
C32_Witness ==
    /\ stop_flag
    /\ \E t \in DOMAIN turn :
           /\ turn[t].pc = "done"
           /\ turn[t].answer = <<>> /\ ~turn[t].error /\ ~turn[t].raised
           /\ EntriesOf(memory, t) = <<>>
           /\ UnitTexts(t) = <<>>


(***************************************************************************)
(* Stop pressed more than once, with the timers that clear the flag.       *)
(***************************************************************************)
MaxTimerStops == 2

TimerSpec ==
    /\ Init
    /\ [][ \/ StopPressed(MaxTimerStops)
           \/ ClearFlag
           \/ TypedInput(SegUtterances, MaxTurns)
           \/ \E t \in DOMAIN turn : GrfiStopped(t)
           \/ \E t \in DOMAIN turn : GrfiRules(t)
           \/ \E t \in DOMAIN turn : StreamChunk(t, StreamFragments, MaxChunks)
           \/ \E t \in DOMAIN turn : StreamEnds(t)
           \/ \E t \in DOMAIN turn : StreamMemory(t)
           \/ \E t \in DOMAIN turn : StreamMemoryUser(t)
           \/ \E t \in DOMAIN turn : StreamMemoryAssistant(t) ]_vars

\* C33: in JARVIS-PT2.py every stop_action is eventually followed by the
\* stop flag being cleared, after which new utterances are routed again,
\* and the flag is not cleared by the timer of an earlier Stop while the
\* 0.6 s window of a later Stop is still open: when the flag is cleared no
\* clear_flag timer is left.
C33_FlagClearedByLastTimerOnly ==
    [][ variant = "pt2" /\ stop_flag /\ ~stop_flag' => timers' = 0 ]_vars


\* C34: in assistant.py at most one background speech-recognition listener
\* is active at any time, across the Start clicks, the Stop clicks and the
\* recognition callbacks: the active listener, if any, is the one whose
\* stop function sr_stop_listening holds.
C34_AtMostOneListener ==
    variant = "assistant" =>
        /\ Cardinality(sr_listeners) <= 1
        /\ sr_listeners \subseteq {sr_handle}

\* C34, its case: after a Stop and a Start the second listener is the active
\* one and has delivered a phrase, as the first had before
C34_Witness ==
    /\ variant = "assistant"
    /\ sr_started = 2
    /\ sr_listeners = {2}
    /\ \E t \in DOMAIN turn : turn[t].src = "speech" /\ turn[t].listener = 1
    /\ \E t \in DOMAIN turn : turn[t].src = "speech" /\ turn[t].listener = 2


(***************************************************************************)
(* Typed generative turns with the Stop and Start buttons, a backend that  *)
(* answers every request in the end (with a fragment, the end of the       *)
(* stream or an error) and stream threads that keep running.               *)
(***************************************************************************)
TypingFairSpec ==
    /\ Init
    /\ [][ \/ TypedInput(SegUtterances, MaxTurns)
           \/ \E t \in DOMAIN turn : GrfiStopped(t)
           \/ \E t \in DOMAIN turn : GrfiRules(t)
           \/ \E t \in DOMAIN turn : StreamChunk(t, StreamFragments, MaxChunks)
           \/ \E t \in DOMAIN turn : StreamEnds(t)
           \/ \E t \in DOMAIN turn : StreamFails(t)
           \/ \E t \in DOMAIN turn : StreamMemory(t)
           \/ \E t \in DOMAIN turn : StreamMemoryUser(t)
           \/ \E t \in DOMAIN turn : StreamMemoryAssistant(t)
           \/ StopAction
           \/ ClearFlag
           \/ StartAction ]_vars
    /\ \A t \in 1..MaxTurns :
           /\ WF_vars(t \in DOMAIN turn
                        /\ \/ StreamChunk(t, StreamFragments, MaxChunks)
                           \/ StreamEnds(t)
                           \/ StreamFails(t))
           /\ WF_vars(t \in DOMAIN turn
                        /\ \/ StreamMemory(t)
                           \/ StreamMemoryUser(t)
                           \/ StreamMemoryAssistant(t))

\* C35: every generative turn that switches the typing indicator on
\* eventually switches it off again, whether the stream completes, is
\* stopped or fails with an error: the turn's stream thread comes to its
\* end, and the step that ends it leaves the indicator off.
C35_TypingIsSwitchedOff ==
    /\ \A t \in 1..MaxTurns :
           (t \in DOMAIN turn /\ turn[t].pc \in GenerativePcs)
               ~> (t \in DOMAIN turn /\ turn[t].pc = "done")
    /\ [][ \A t \in DOMAIN turn :
               turn[t].pc \in GenerativePcs /\ turn'[t].pc = "done"
                   => ~typing' ]_vars

\* C35, its case: a stream that completed, a stream that was stopped and a
\* stream that failed have each ended, and the indicator is off
C35_Witness ==
    /\ ~typing
    /\ \A t \in DOMAIN turn : turn[t].pc = "done"
    /\ \E t \in DOMAIN turn : turn[t].error
    /\ \E t \in DOMAIN turn : turn[t].stopped /\ ~turn[t].error


(***************************************************************************)
(* Typed "open ..." commands, one at a time.                               *)
(***************************************************************************)
OpenSpec ==
    /\ Init
    /\ [][ \/ TypedInput({ W.open_notepad, W.open_chrome, W.open_youtube,
                           <<"p", "l", "s", " ">> \o W.open_notepad,
                           <<"O", "p", "e", "n", " ", "a", " ", "b">>,
                           W.open_ \o W.volume \o <<" ">> \o W.up,
                           <<"h", "i">> },
                         MaxReplyTurns)
           \/ \E t \in DOMAIN turn : GrfiRules(t) ]_vars

\* C36, as stated: with no confirmation pending, an utterance that begins
\* with "open " and matches no earlier rule is always handled by the
\* site-open rule and never reaches the local_commands table, so the
\* table's entries open notepad, open calculator, open cmd, open chrome and
\* open vs code are never executed.
C36_TableOpenEntriesNeverExecuted ==
    [][ \A t \in DOMAIN turn :
            RoutedByRules(t) =>
                LET cmd == CommandLower(t)
                    rules == Rules(variant, cmd, current_file)
                    open == CHOOSE i \in 1..Len(rules) :
                                /\ rules[i].kind = "open site"
                                /\ \A j \in 1..(i - 1) : rules[j].kind # "open site"
                IN  /\ StartsWith(cmd, W.open_)
                           /\ (\A j \in 1..(open - 1) : ~rules[j].hit)
                       => turn'[t].answer = <<"open site">>
                    /\ turn'[t].answer \notin
                           { <<"table open notepad">>, <<"table open calculator">>,
                             <<"table open cmd">>, <<"table open chrome">>,
                             <<"table open vs code">> } ]_vars

\* C36, amended: with no confirmation pending, an utterance that begins
\* with "open " and matches no earlier rule is always handled by the
\* site-open rule and never reaches the local_commands table; the table's
\* entries open notepad, open calculator, open cmd, open chrome and open vs
\* code are executed only for an utterance that contains the entry's key
\* without beginning with "open ".
C36_TableOpenEntriesOnlyInsideUtterance ==
    [][ \A t \in DOMAIN turn :
            RoutedByRules(t) =>
                LET cmd == CommandLower(t)
                    rules == Rules(variant, cmd, current_file)
                    open == CHOOSE i \in 1..Len(rules) :
                                /\ rules[i].kind = "open site"
                                /\ \A j \in 1..(i - 1) : rules[j].kind # "open site"
                    key == [ notepad |-> W.open_notepad,
                             calculator |-> W.open_calculator,
                             cmd |-> W.open_cmd, chrome |-> W.open_chrome,
                             vs_code |-> W.open_vs_code ]
                    said == [ notepad |-> <<"table open notepad">>,
                              calculator |-> <<"table open calculator">>,
                              cmd |-> <<"table open cmd">>,
                              chrome |-> <<"table open chrome">>,
                              vs_code |-> <<"table open vs code">> ]
                IN  /\ StartsWith(cmd, W.open_)
                           /\ (\A j \in 1..(open - 1) : ~rules[j].hit)
                       => turn'[t].answer = <<"open site">>
                    /\ StartsWith(cmd, W.open_) =>
                           \A j \in (open + 1)..Len(rules) :
                               turn'[t].answer # <<rules[j].kind>>
                                   \/ rules[j].kind = "open site"
                    /\ \A e \in DOMAIN key :
                           turn'[t].answer = said[e] =>
                               Contains(cmd, key[e]) /\ ~StartsWith(cmd, W.open_)
      ]_vars

\* C36, its case: "open notepad" was answered by the site-open rule and an
\* utterance with "open notepad" inside was answered by the table
C36_Witness ==
    /\ \E t \in DOMAIN turn :
           /\ turn[t].pc = "done"
           /\ CommandLower(t) = W.open_notepad
           /\ turn[t].answer = <<"open site">>
    /\ \E t \in DOMAIN turn :
           /\ turn[t].pc = "done"
           /\ turn[t].answer = <<"table open notepad">>


(***************************************************************************)
(* The window of assistant.py is closed while commands are answered and    *)
(* spoken.  The None sentinel is the entry 0 of the TTS queue.             *)
(***************************************************************************)
\* tts_worker: text = tts_queue.get(); if text is None: break
WorkerGetsSentinel ==
    /\ worker.pc = "get"
    /\ tts_queue # <<>>
    /\ Head(tts_queue) = 0
    /\ tts_queue' = Tail(tts_queue)
    /\ worker' = [pc |-> "ended", unit |-> 0]
    /\ UNCHANGED <<shared, sd_active, threads, logs>>

\* on_app_closing: stop_flag.set(); stop_sr_background();
\* tts_queue.put(None); time.sleep(0.4); app.destroy()
on_app_closing ==
    /\ variant = "assistant"
    /\ ~GuiBusy
    /\ ui_running
    /\ stop_flag' = TRUE
    /\ sr_listeners' = sr_listeners \ {sr_handle}
    /\ sr_handle' = 0
    /\ tts_queue' = Append(tts_queue, 0)
    /\ ui_running' = FALSE
    /\ UNCHANGED <<variant, pending_close_window, pending_system_action,
                   current_file, memory, memory_file, typing, sd_active,
                   worker, turn, timers, nStops, sr_started, logs>>

CloseSpec ==
    /\ Init
    /\ [][ \/ TypedInput({W.system_info}, MaxTurns)
           \/ SpeechRecognized({W.system_info}, MaxTurns)
           \/ \E t \in DOMAIN turn : CallbackDispatch(t)
           \/ \E t \in DOMAIN turn : GrfiStopped(t)
           \/ \E t \in DOMAIN turn : GrfiRules(t)
           \/ Worker
           \/ WorkerGetsSentinel
           \/ on_app_closing ]_vars

\* C37: in assistant.py, after on_app_closing has put the None sentinel on
\* the TTS queue the worker terminates once it reaches the sentinel, and it
\* synthesizes no entry from the moment on_app_closing set the stop flag.
C37_NoSynthesisAfterClosing ==
    [][ /\ 0 \in Logged(tts_queue) \/ worker.pc = "ended" => ~SynthesisStarts
        /\ worker.pc = "ended" => worker'.pc = "ended" ]_vars


=============================================================================
